---- MODULE Spec2Model ----
(***************************************************************************)
(* ChemAssistant: the molecule Builder (src/constants.ts, lines 16-352)    *)
(* and the interactive MoleculeRenderer it mounts (src/unnamed/part_001,   *)
(* lines 1-364, the version with zoom, pan and bond-order cycling).        *)
(*                                                                         *)
(* Every action is one event handler run to completion, followed by the    *)
(* React re-render and the renderer's prop-sync effect (part_001:43-92).   *)
(* Ids are `atom-${Date.now()}` / `bond-${Date.now()}`; an id is modelled  *)
(* by its timestamp, the two prefixes being two separate namespaces.       *)
(* Sequences are 1-based, so an index of 0 stands for JavaScript's -1.     *)
(***************************************************************************)
EXTENDS Integers, Sequences, FiniteSets, TLC

\* ------------------------------------------------------------------ bounds
MaxAtoms == 3
MaxHist == 2
MaxTicks == 1
MaxPan == 1

\* ------------------------------------------------------- program constants
CanvasWidth == 600
CanvasHeight == 400
\* transform.k is kept in hundredths: KUnit stands for the scale 1.
KUnit == 100

\* The value of a null reference (draggedAtomId, selectedAtomId); ids are > 0.
Null == 0
\* lastPanRef.current when null
NoPoint == <<>>

\* Elements offered by the palette that the model's user picks from.
Elements == {"C"}
\* Outcomes of (Math.random() - 0.5) * 60 that the model draws from.
Jitters == {0}
\* Pointer positions (clientX, clientY), in svg user units (identity CTM).
Points == {<<300, 200>>}
\* Panning is explored while each offset stays within 0..PanLimit.
PanLimit == MaxPan * 30


\* ------------------------------------------------------------ saved data
\* The inventory handed to the Builder as savedMolecules: one valid molecule,
\* hydroxide O-H, built and saved in an earlier session.
Hydroxide ==
  [ id |-> <<"mol", 1>>, name |-> "Hydroxide",
    atoms |-> << [id |-> 1, element |-> "O", x |-> 300, y |-> 200],
                 [id |-> 2, element |-> "H", x |-> 330, y |-> 200] >>,
    bonds |-> << [id |-> 1, sourceAtomId |-> 1, targetAtomId |-> 2, order |-> 1] >> ]

savedMolecules == {Hydroxide}

\* The clock reading when the session starts: later than every saved id.
ClockStart == Len(Hydroxide.atoms) + 1
\* The last clock reading explored.
MaxClock == ClockStart + MaxTicks

\* ------------------------------------------------------------ variables
VARIABLES
  currentMolecule,   \* Builder: useState<Molecule>
  history,           \* Builder: useState<Molecule[]>
  mode,              \* Builder: 'build' | 'erase'
  internalMolecule,  \* Renderer: useState<Molecule>(molecule)
  draggedAtomId,     \* Renderer
  selectedAtomId,    \* Renderer: the pending bond source
  transform,         \* Renderer: {k, x, y}; k in units of 1/KUnit
  isPanning,         \* Renderer
  lastPanRef,        \* Renderer: useRef
  isDraggingRef,     \* Renderer: useRef(false)
  clock,             \* the latest reading of Date.now()
  gesture,           \* the pointer: up, or pressed on a target
  input,             \* the argument of the service call under check
  output,            \* what that call returned, once it has run
  isAutoLayout,      \* Renderer: the isAutoLayout prop
  mounted,           \* Renderer: FALSE once the component is unmounted
  simulations,       \* Renderer: the d3 simulations its effect created
  reactants,         \* ReactionLab: useState<Molecule[]>
  result,            \* ReactionLab: useState<ReactionResult | null>
  loading,           \* ReactionLab: useState(false)
  error,             \* ReactionLab: useState<string | null>
  request,           \* ReactionLab: the simulateReaction call awaited
  heap               \* the objects d3 writes to, by reference

vars == << currentMolecule, history, mode, internalMolecule, draggedAtomId,
           selectedAtomId, transform, isPanning, lastPanRef, isDraggingRef,
           clock, gesture, input, output, isAutoLayout, mounted, simulations,
           reactants, result, loading, error, request, heap >>

builderVars == << currentMolecule, history, mode >>
viewVars == << transform, isPanning, lastPanRef >>
serviceVars == << input, output >>
liveVars == << isAutoLayout, mounted, simulations >>
labVars == << reactants, result, loading, error, request >>
\* What no handler of the Builder page touches.
offPageVars == << serviceVars, liveVars, labVars, heap >>

\* ------------------------------------------------------------- helpers
AtomIds(m) == { m.atoms[i].id : i \in DOMAIN m.atoms }
BondIds(m) == { m.bonds[i].id : i \in DOMAIN m.bonds }

RemoveAt(s, i) == [ j \in 1..(Len(s) - 1) |-> IF j < i THEN s[j] ELSE s[j + 1] ]

EmptyMolecule(id) == [ id |-> id, name |-> "New Molecule", atoms |-> <<>>, bonds |-> <<>> ]

GestureUp == [ phase |-> "up", kind |-> "none", ref |-> 0 ]

\* Date.now(): a reading never earlier than the previous one.
Now == { t \in {clock, clock + 1} : t <= MaxClock }

\* No service call is under check / the call has not run.
NoInput == [ kind |-> "none" ]
NotRun == [ done |-> FALSE ]

\* The Builder and its renderer after mounting.
InitBuilder ==
  /\ currentMolecule = EmptyMolecule(<<"temp-builder", 0>>)
  /\ history = <<>>
  /\ mode = "build"
  /\ internalMolecule = currentMolecule
  /\ draggedAtomId = Null
  /\ selectedAtomId = Null
  /\ transform = [ k |-> KUnit, x |-> 0, y |-> 0 ]
  /\ isPanning = FALSE
  /\ lastPanRef = NoPoint
  /\ isDraggingRef = FALSE
  /\ clock = ClockStart
  /\ gesture = GestureUp

\* The Builder's renderer is mounted without isAutoLayout (constants.ts:
\* 225-234), so its effect creates no simulation.
NotLive ==
  /\ isAutoLayout = FALSE
  /\ mounted = TRUE
  /\ simulations = <<>>

\* null, where the other values are objects or strings (result, error).
NullRef == [ null |-> TRUE ]

\* ReactionLab after mounting (part_002:12-15), no request awaited.
InitLab ==
  /\ reactants = <<>>
  /\ result = NullRef
  /\ loading = FALSE
  /\ error = NullRef
  /\ request = NullRef

\* No object is tracked by reference.
NoHeap == heap = <<>>

Init ==
  /\ InitBuilder
  /\ input = NoInput
  /\ output = NotRun
  /\ NotLive /\ InitLab /\ NoHeap

\* ------------------------------------------------------------- Builder
\* saveHistory (constants.ts:43-45): push the currentMolecule of this render.
saveHistory == Append(history, currentMolecule)

\* The updater addAtom hands to setCurrentMolecule (constants.ts:57-66).
addAtomUpdater(prev, element, jx, jy, t) ==
  [ prev EXCEPT !.atoms =
      Append(@, [ id |-> t, element |-> element,
                  x |-> (CanvasWidth \div 2) + jx,
                  y |-> (CanvasHeight \div 2) + jy ]) ]

\* The updater of handleAtomDelete (constants.ts:73-77).
handleAtomDeleteUpdater(prev, atomId) ==
  [ prev EXCEPT
      !.atoms = SelectSeq(@, LAMBDA a : a.id # atomId),
      !.bonds = SelectSeq(@, LAMBDA b : b.sourceAtomId # atomId /\ b.targetAtomId # atomId) ]

\* The updater of handleBondDelete (constants.ts:82-85).
handleBondDeleteUpdater(prev, bondId) ==
  [ prev EXCEPT !.bonds = SelectSeq(@, LAMBDA b : b.id # bondId) ]

\* JSON.parse(JSON.stringify(mol)) (constants.ts:119): a fresh value holding
\* the enumerable fields of mol, atom by atom and bond by bond.
Clone(mol) ==
  [ id |-> mol.id, name |-> mol.name,
    atoms |-> [ i \in DOMAIN mol.atoms |->
                  [ id |-> mol.atoms[i].id, element |-> mol.atoms[i].element,
                    x |-> mol.atoms[i].x, y |-> mol.atoms[i].y ] ],
    bonds |-> [ i \in DOMAIN mol.bonds |->
                  [ id |-> mol.bonds[i].id, sourceAtomId |-> mol.bonds[i].sourceAtomId,
                    targetAtomId |-> mol.bonds[i].targetAtomId, order |-> mol.bonds[i].order ] ] ]

\* ----------------------------------------------------- Renderer helpers
\* The prop-sync effect (part_001:43-92) with isAutoLayout = false: it runs
\* after a render in which the molecule prop or draggedAtomId changed, and
\* copies the prop unless a drag is in progress.  afterHandler is what the
\* handler itself left in internalMolecule; newProp tells whether the Builder
\* installed a new currentMolecule object.
SyncEffect(newProp, afterHandler) ==
  internalMolecule' =
    IF (newProp \/ draggedAtomId' # draggedAtomId) /\ draggedAtomId' = Null
    THEN currentMolecule'
    ELSE afterHandler

\* A findIndex that matches a bond in the direction selected -> atomId only.
existingBondIndexOneWay(m, selected, atomId) ==
  LET hits == { i \in DOMAIN m.bonds :
                  m.bonds[i].sourceAtomId = selected /\ m.bonds[i].targetAtomId = atomId }
  IN IF hits = {} THEN 0 ELSE CHOOSE i \in hits : \A j \in hits : i <= j

\* findIndex of handleAtomClick (part_001:196-199); 0 when there is none.
existingBondIndex(m, selected, atomId) ==
  LET hits == { i \in DOMAIN m.bonds :
                  \/ (m.bonds[i].sourceAtomId = selected /\ m.bonds[i].targetAtomId = atomId)
                  \/ (m.bonds[i].targetAtomId = selected /\ m.bonds[i].sourceAtomId = atomId) }
  IN IF hits = {} THEN 0 ELSE CHOOSE i \in hits : \A j \in hits : i <= j

\* A cycle that stops at the triple bond instead of wrapping to single.
newOrderSaturating(order) == IF order = 1 THEN 2 ELSE 3

\* Cycle Bond Order: 1 -> 2 -> 3 -> 1 (part_001:204).
newOrder(order) == IF order = 1 THEN 2 ELSE (IF order = 2 THEN 3 ELSE 1)

\* renderBond (part_001:229-237) draws a bond, and its hit line, only when
\* both end atoms are found and lie apart.
BondIsRendered(m, bond) ==
  /\ \E i \in DOMAIN m.atoms : m.atoms[i].id = bond.sourceAtomId
  /\ \E i \in DOMAIN m.atoms : m.atoms[i].id = bond.targetAtomId
  /\ LET source == m.atoms[CHOOSE i \in DOMAIN m.atoms :
                             /\ m.atoms[i].id = bond.sourceAtomId
                             /\ \A j \in DOMAIN m.atoms : m.atoms[j].id = bond.sourceAtomId => i <= j]
         target == m.atoms[CHOOSE i \in DOMAIN m.atoms :
                             /\ m.atoms[i].id = bond.targetAtomId
                             /\ \A j \in DOMAIN m.atoms : m.atoms[j].id = bond.targetAtomId => i <= j]
     IN ~(target.x = source.x /\ target.y = source.y)

\* The exploration bound on a step that pushes a snapshot and installs next.
RoomFor(next) ==
  /\ Len(history) < MaxHist
  /\ Len(next.atoms) <= MaxAtoms

\* An onUpdate that installs the new molecule and never takes a snapshot.
handleMoleculeUpdateNoSnapshot(newMolecule) ==
  /\ history' = history
  /\ currentMolecule' = newMolecule

\* An onUpdate that takes a snapshot on every update, coordinate-only too.
handleMoleculeUpdateAlwaysSaves(newMolecule) ==
  /\ RoomFor(newMolecule)
  /\ history' = saveHistory
  /\ currentMolecule' = newMolecule

\* handleMoleculeUpdate (constants.ts:88-97), the Builder's onUpdate.
handleMoleculeUpdate(newMolecule) ==
  /\ IF \/ Len(newMolecule.atoms) # Len(currentMolecule.atoms)
        \/ Len(newMolecule.bonds) # Len(currentMolecule.bonds)
     THEN /\ RoomFor(newMolecule)
          /\ history' = saveHistory
     ELSE history' = history
  /\ currentMolecule' = newMolecule

\* --------------------------------------------------- Builder operations
\* The toolbar buttons are pressed with the pointer, hence between gestures.
ButtonReady == gesture.phase = "up"

\* addAtom (constants.ts:54-69)
addAtom(element, jx, jy, t) ==
  /\ ButtonReady
  /\ RoomFor(addAtomUpdater(currentMolecule, element, jx, jy, t))
  /\ history' = saveHistory
  /\ currentMolecule' = addAtomUpdater(currentMolecule, element, jx, jy, t)
  /\ mode' = "build"
  /\ clock' = t
  /\ UNCHANGED << draggedAtomId, selectedAtomId, viewVars, isDraggingRef, gesture >>
  /\ SyncEffect(TRUE, internalMolecule)

\* The build and erase buttons (constants.ts:162-175)
setMode(m) ==
  /\ ButtonReady
  /\ mode' = m
  /\ UNCHANGED << currentMolecule, history, internalMolecule, draggedAtomId,
                  selectedAtomId, viewVars, isDraggingRef, clock, gesture >>

\* An undo that pops the last snapshot but restores the oldest one.
handleUndoOldest ==
  /\ ButtonReady
  /\ \/ /\ Len(history) = 0
        /\ UNCHANGED vars
     \/ /\ Len(history) # 0
        /\ currentMolecule' = history[1]
        /\ history' = SubSeq(history, 1, Len(history) - 1)
        /\ UNCHANGED << mode, draggedAtomId, selectedAtomId, viewVars, isDraggingRef,
                        clock, gesture >>
        /\ SyncEffect(TRUE, internalMolecule)

\* handleUndo (constants.ts:47-52); with an empty history it returns at once.
handleUndo ==
  /\ ButtonReady
  /\ \/ /\ Len(history) = 0
        /\ UNCHANGED vars
     \/ /\ Len(history) # 0
        /\ currentMolecule' = history[Len(history)]
        /\ history' = SubSeq(history, 1, Len(history) - 1)
        /\ UNCHANGED << mode, draggedAtomId, selectedAtomId, viewVars, isDraggingRef,
                        clock, gesture >>
        /\ SyncEffect(TRUE, internalMolecule)

\* clearCanvas (constants.ts:106-114)
clearCanvas(t) ==
  /\ ButtonReady
  /\ RoomFor(EmptyMolecule(<<"temp", t>>))
  /\ history' = saveHistory
  /\ currentMolecule' = EmptyMolecule(<<"temp", t>>)
  /\ clock' = t
  /\ UNCHANGED << mode, draggedAtomId, selectedAtomId, viewVars, isDraggingRef, gesture >>
  /\ SyncEffect(TRUE, internalMolecule)

\* A handleLoad that installs the copy and leaves the history as it was.
handleLoadKeepsHistory(mol) ==
  /\ ButtonReady
  /\ currentMolecule' = Clone(mol)
  /\ history' = history
  /\ UNCHANGED << mode, draggedAtomId, selectedAtomId, viewVars, isDraggingRef,
                  clock, gesture >>
  /\ SyncEffect(TRUE, internalMolecule)

\* handleLoad (constants.ts:116-123)
handleLoad(mol) ==
  /\ ButtonReady
  /\ currentMolecule' = Clone(mol)
  /\ history' = <<>>
  /\ UNCHANGED << mode, draggedAtomId, selectedAtomId, viewVars, isDraggingRef,
                  clock, gesture >>
  /\ SyncEffect(TRUE, internalMolecule)

\* handleAtomDelete (constants.ts:71-78), the renderer's onAtomDelete.
handleAtomDelete(atomId) ==
  /\ RoomFor(handleAtomDeleteUpdater(currentMolecule, atomId))
  /\ history' = saveHistory
  /\ currentMolecule' = handleAtomDeleteUpdater(currentMolecule, atomId)

\* ------------------------------------------------- Renderer: the pointer
\* handleSvgPointerDown (part_001:122-127)
handleSvgPointerDown(p) ==
  /\ isPanning' = TRUE
  /\ lastPanRef' = p

\* Pointer-down on the empty canvas.
SvgPointerDown(p) ==
  /\ gesture.phase = "up"
  /\ handleSvgPointerDown(p)
  /\ gesture' = [ phase |-> "down", kind |-> "canvas", ref |-> 0 ]
  /\ UNCHANGED << builderVars, internalMolecule, draggedAtomId, selectedAtomId,
                  transform, isDraggingRef, clock >>

\* Pointer-down on a bond's hit line: the line has no handler of its own
\* (part_001:257-272), so the event bubbles to the svg.
BondPointerDown(bondId, p) ==
  /\ gesture.phase = "up"
  /\ \E i \in DOMAIN internalMolecule.bonds :
        /\ internalMolecule.bonds[i].id = bondId
        /\ BondIsRendered(internalMolecule, internalMolecule.bonds[i])
  /\ handleSvgPointerDown(p)
  /\ gesture' = [ phase |-> "down", kind |-> "bond", ref |-> bondId ]
  /\ UNCHANGED << builderVars, internalMolecule, draggedAtomId, selectedAtomId,
                  transform, isDraggingRef, clock >>

\* A pointer-down handler without the erase-mode return: it starts a drag in
\* either mode.
AtomPointerDownAnyMode(atomId, p) ==
  /\ gesture.phase = "up"
  /\ atomId \in AtomIds(internalMolecule)
  /\ gesture' = [ phase |-> "down", kind |-> "atom", ref |-> atomId ]
  /\ draggedAtomId' = atomId
  /\ isDraggingRef' = FALSE
  /\ UNCHANGED << isPanning, lastPanRef >>
  /\ SyncEffect(FALSE, internalMolecule)
  /\ UNCHANGED << builderVars, selectedAtomId, transform, clock >>

\* A pointer-down handler that does not reset isDraggingRef.
AtomPointerDownKeepsFlag(atomId, p) ==
  /\ gesture.phase = "up"
  /\ atomId \in AtomIds(internalMolecule)
  /\ gesture' = [ phase |-> "down", kind |-> "atom", ref |-> atomId ]
  /\ \/ /\ mode = "erase"
        /\ handleSvgPointerDown(p)
        /\ UNCHANGED << draggedAtomId, isDraggingRef, internalMolecule >>
     \/ /\ mode # "erase"
        /\ draggedAtomId' = atomId
        /\ UNCHANGED << isDraggingRef, isPanning, lastPanRef >>
        /\ SyncEffect(FALSE, internalMolecule)
  /\ UNCHANGED << builderVars, selectedAtomId, transform, clock >>

\* handleAtomPointerDown (part_001:129-137); interactive is true in the
\* Builder.  In erase mode the handler returns before stopPropagation, so
\* the event goes on to handleSvgPointerDown.
AtomPointerDown(atomId, p) ==
  /\ gesture.phase = "up"
  /\ atomId \in AtomIds(internalMolecule)
  /\ gesture' = [ phase |-> "down", kind |-> "atom", ref |-> atomId ]
  /\ \/ /\ mode = "erase"
        /\ handleSvgPointerDown(p)
        /\ UNCHANGED << draggedAtomId, isDraggingRef, internalMolecule >>
     \/ /\ mode # "erase"
        /\ draggedAtomId' = atomId
        /\ isDraggingRef' = FALSE
        /\ UNCHANGED << isPanning, lastPanRef >>
        /\ SyncEffect(FALSE, internalMolecule)
  /\ UNCHANGED << builderVars, selectedAtomId, transform, clock >>

\* A handler whose map moves every atom to the pointer, the dragged one or
\* not.
PointerMoveEveryAtom(p) ==
  \/ /\ draggedAtomId # Null
     /\ isDraggingRef' = TRUE
     /\ LET x == ((p[1] - transform.x) * KUnit) \div transform.k
            y == ((p[2] - transform.y) * KUnit) \div transform.k
            newAtoms == [ i \in DOMAIN internalMolecule.atoms |->
                            [ internalMolecule.atoms[i] EXCEPT !.x = x, !.y = y ] ]
            updatedMolecule == [ internalMolecule EXCEPT !.atoms = newAtoms ]
        IN /\ handleMoleculeUpdate(updatedMolecule)
           /\ internalMolecule' = updatedMolecule
     /\ UNCHANGED << mode, draggedAtomId, selectedAtomId, viewVars, clock, gesture >>
  \/ /\ draggedAtomId = Null
     /\ isPanning /\ lastPanRef # NoPoint
     /\ LET dx == p[1] - lastPanRef[1]
            dy == p[2] - lastPanRef[2]
        IN /\ transform.x + dx \in 0..PanLimit
           /\ transform.y + dy \in 0..PanLimit
           /\ transform' = [ transform EXCEPT !.x = @ + dx, !.y = @ + dy ]
     /\ lastPanRef' = p
     /\ UNCHANGED << builderVars, internalMolecule, draggedAtomId, selectedAtomId,
                     isPanning, isDraggingRef, clock, gesture >>
  \/ /\ draggedAtomId = Null
     /\ ~(isPanning /\ lastPanRef # NoPoint)
     /\ UNCHANGED vars

\* handlePointerMove (part_001:139-170)
PointerMove(p) ==
  \/ /\ draggedAtomId # Null
     /\ isDraggingRef' = TRUE
     /\ LET x == ((p[1] - transform.x) * KUnit) \div transform.k
            y == ((p[2] - transform.y) * KUnit) \div transform.k
            newAtoms == [ i \in DOMAIN internalMolecule.atoms |->
                            IF internalMolecule.atoms[i].id = draggedAtomId
                            THEN [ internalMolecule.atoms[i] EXCEPT !.x = x, !.y = y ]
                            ELSE internalMolecule.atoms[i] ]
            updatedMolecule == [ internalMolecule EXCEPT !.atoms = newAtoms ]
        IN /\ handleMoleculeUpdate(updatedMolecule)
           /\ internalMolecule' = updatedMolecule
     /\ UNCHANGED << mode, draggedAtomId, selectedAtomId, viewVars, clock, gesture >>
  \/ /\ draggedAtomId = Null
     /\ isPanning /\ lastPanRef # NoPoint
     /\ LET dx == p[1] - lastPanRef[1]
            dy == p[2] - lastPanRef[2]
        IN /\ transform.x + dx \in 0..PanLimit
           /\ transform.y + dy \in 0..PanLimit
           /\ transform' = [ transform EXCEPT !.x = @ + dx, !.y = @ + dy ]
     /\ lastPanRef' = p
     /\ UNCHANGED << builderVars, internalMolecule, draggedAtomId, selectedAtomId,
                     isPanning, isDraggingRef, clock, gesture >>
  \/ /\ draggedAtomId = Null
     /\ ~(isPanning /\ lastPanRef # NoPoint)
     /\ UNCHANGED vars

\* A bond branch entered whenever some atom is selected, the clicked one too.
hasPendingSourceAnyTarget(atomId) == selectedAtomId # Null

\* The condition of the bond branch (part_001:194):
\* selectedAtomId && selectedAtomId !== atomId.
hasPendingSource(atomId) == selectedAtomId # Null /\ selectedAtomId # atomId

\* The handler as the first renderer had it (components/MoleculeRenderer.tsx,
\* lines 134-167): an existing bond is left alone and the bond branch ends
\* with setSelectedAtomId(null).
handleAtomClickClearing(shown, atomId, t) ==
  \/ /\ mode = "erase"
     /\ handleAtomDelete(atomId)
     /\ UNCHANGED << selectedAtomId, clock >>
     /\ SyncEffect(TRUE, shown)
  \/ /\ mode # "erase"
     /\ isDraggingRef
     /\ internalMolecule' = shown
     /\ UNCHANGED << currentMolecule, history, selectedAtomId, clock >>
  \/ /\ mode # "erase"
     /\ ~isDraggingRef
     /\ hasPendingSource(atomId)
     /\ existingBondIndex(shown, selectedAtomId, atomId) > 0
     /\ selectedAtomId' = Null
     /\ internalMolecule' = shown
     /\ UNCHANGED << currentMolecule, history, clock >>
  \/ /\ mode # "erase"
     /\ ~isDraggingRef
     /\ hasPendingSource(atomId)
     /\ existingBondIndex(shown, selectedAtomId, atomId) = 0
     /\ LET newBond == [ id |-> t, sourceAtomId |-> selectedAtomId,
                         targetAtomId |-> atomId, order |-> 1 ]
            updated == [ shown EXCEPT !.bonds = Append(@, newBond) ]
        IN /\ handleMoleculeUpdate(updated)
           /\ SyncEffect(TRUE, updated)
     /\ clock' = t
     /\ selectedAtomId' = Null
  \/ /\ mode # "erase"
     /\ ~isDraggingRef
     /\ ~hasPendingSource(atomId)
     /\ selectedAtomId' = (IF atomId = selectedAtomId THEN Null ELSE atomId)
     /\ internalMolecule' = shown
     /\ UNCHANGED << currentMolecule, history, clock >>

\* handleAtomClick (part_001:180-227), run in the render that follows the
\* pointer-up: shown is the internalMolecule of that render.
handleAtomClick(shown, atomId, t) ==
  \/ /\ mode = "erase"
     /\ handleAtomDelete(atomId)
     /\ UNCHANGED << selectedAtomId, clock >>
     /\ SyncEffect(TRUE, shown)
  \/ /\ mode # "erase"
     /\ isDraggingRef
     /\ internalMolecule' = shown
     /\ UNCHANGED << currentMolecule, history, selectedAtomId, clock >>
  \/ /\ mode # "erase"
     /\ ~isDraggingRef
     /\ hasPendingSource(atomId)
     /\ existingBondIndex(shown, selectedAtomId, atomId) > 0
     /\ LET idx == existingBondIndex(shown, selectedAtomId, atomId)
            bond == shown.bonds[idx]
            updated == [ shown EXCEPT
                           !.bonds[idx] = [ bond EXCEPT !.order = newOrder(bond.order) ] ]
        IN /\ handleMoleculeUpdate(updated)
           /\ SyncEffect(TRUE, updated)
     /\ UNCHANGED << selectedAtomId, clock >>
  \/ /\ mode # "erase"
     /\ ~isDraggingRef
     /\ hasPendingSource(atomId)
     /\ existingBondIndex(shown, selectedAtomId, atomId) = 0
     /\ LET newBond == [ id |-> t, sourceAtomId |-> selectedAtomId,
                         targetAtomId |-> atomId, order |-> 1 ]
            updated == [ shown EXCEPT !.bonds = Append(@, newBond) ]
        IN /\ handleMoleculeUpdate(updated)
           /\ SyncEffect(TRUE, updated)
     /\ clock' = t
     /\ UNCHANGED selectedAtomId
  \/ /\ mode # "erase"
     /\ ~isDraggingRef
     /\ ~hasPendingSource(atomId)
     /\ selectedAtomId' = (IF atomId = selectedAtomId THEN Null ELSE atomId)
     /\ internalMolecule' = shown
     /\ UNCHANGED << currentMolecule, history, clock >>

\* What the renderer shows after handlePointerUp and the re-render it causes:
\* the effect copies the prop when draggedAtomId went back to null.
ShownAfterPointerUp ==
  IF draggedAtomId # Null THEN currentMolecule ELSE internalMolecule

\* Releasing the pointer: handlePointerUp (part_001:172-177), the re-render,
\* and then the click the browser dispatches to the pressed element in the
\* same task.  Only atoms have an onClick (part_001:308-312); a bond's hit
\* line and the canvas have none.
PointerUp(t) ==
  /\ gesture.phase = "down"
  /\ draggedAtomId' = Null
  /\ isPanning' = FALSE
  /\ lastPanRef' = NoPoint
  /\ gesture' = GestureUp
  /\ UNCHANGED << mode, transform, isDraggingRef >>
  /\ \/ /\ gesture.kind = "atom"
        /\ gesture.ref \in AtomIds(ShownAfterPointerUp)
        /\ handleAtomClick(ShownAfterPointerUp, gesture.ref, t)
     \/ /\ ~(gesture.kind = "atom" /\ gesture.ref \in AtomIds(ShownAfterPointerUp))
        /\ t = clock
        /\ internalMolecule' = ShownAfterPointerUp
        /\ UNCHANGED << currentMolecule, history, selectedAtomId, clock >>

Next ==
  \/ /\ UNCHANGED offPageVars
     /\ \E el \in Elements, jx \in Jitters, jy \in Jitters, t \in Now : addAtom(el, jx, jy, t)
  \/ /\ UNCHANGED offPageVars
     /\ \E m \in {"build", "erase"} : setMode(m)
  \/ /\ UNCHANGED offPageVars
     /\ handleUndo
  \/ /\ UNCHANGED offPageVars
     /\ \E t \in Now : clearCanvas(t)
  \/ /\ UNCHANGED offPageVars
     /\ \E mol \in savedMolecules : handleLoad(mol)
  \/ /\ UNCHANGED offPageVars
     /\ \E p \in Points : SvgPointerDown(p)
  \/ /\ UNCHANGED offPageVars
     /\ \E p \in Points : \E b \in BondIds(internalMolecule) : BondPointerDown(b, p)
  \/ /\ UNCHANGED offPageVars
     /\ \E p \in Points : \E a \in AtomIds(internalMolecule) : AtomPointerDown(a, p)
  \/ /\ UNCHANGED offPageVars
     /\ \E p \in Points : PointerMove(p)
  \/ /\ UNCHANGED offPageVars
     /\ \E t \in Now : PointerUp(t)

Spec == Init /\ [][Next]_vars


\* =============================================== geminiService: products
\* simulateReaction (src/unnamed/part_000, lines 62-193) maps every product
\* graph of the parsed response to a Molecule and lays it out.  A product
\* graph is { name?, atoms: [{id?, element?}], bonds: [{source?, target?,
\* order?}] }; the response schema types id, element, source and target as
\* strings and order as an integer and requires none of them, so a missing
\* property is a field outside the record's DOMAIN.

\* bounds on the product graphs explored
MaxInAtoms == 2
MaxInBonds == 2

\* enum ElementType (types.ts:1-17)
ElementType ==
  { "H", "C", "O", "N", "Cl", "Na", "S", "F", "P", "Mg", "K", "Ca", "Fe", "Br", "I" }

\* Values the collaborator may send: ids (the empty string among them),
\* element strings (one that is no ElementType), bond ends (one that no atom
\* carries) and bond orders.
InIds == { "", "1", "2" }
InElements == { "H", "Zz" }
InSources == { "1", "9" }
InTargets == { "1", "2", "9" }
InOrders == { -1, 0, 2, 4 }

InAtoms ==
  { [ id |-> i, element |-> e ] : i \in InIds, e \in InElements }
    \cup { [ id |-> i ] : i \in InIds }
    \cup { [ element |-> e ] : e \in InElements }

InBonds ==
  { [ source |-> a, target |-> b, order |-> o ] :
      a \in InSources, b \in InTargets, o \in InOrders }
    \cup { [ source |-> a, target |-> b ] : a \in InSources, b \in InTargets }

SeqsUpTo(S, n) == UNION { [ 1..k -> S ] : k \in 0..n }

\* The product graphs explored, each at index 0 of data.products.
ProductGraphs ==
  { [ kind |-> "product", index |-> 0, atoms |-> as, bonds |-> bs ] :
      as \in SeqsUpTo(InAtoms, MaxInAtoms), bs \in SeqsUpTo(InBonds, MaxInBonds) }

\* JavaScript truthiness of the string property f of object o.
Truthy(o, f) == f \in DOMAIN o /\ o[f] # ""

\* A filter that also asks for a known element symbol.
validAtomsKnownElements(p) ==
  SelectSeq(p.atoms, LAMBDA a :
    Truthy(a, "id") /\ Truthy(a, "element") /\ a.element \in ElementType)

\* validAtoms (part_000:153)
validAtoms(p) == SelectSeq(p.atoms, LAMBDA a : Truthy(a, "id") /\ Truthy(a, "element"))

\* An id set built from all atoms of the graph, the rejected ones too.
atomIdSetUnfiltered(p) ==
  { p.atoms[i].id : i \in { j \in DOMAIN p.atoms : "id" \in DOMAIN p.atoms[j] } }

\* atomIdSet (part_000:154)
atomIdSet(p) == { validAtoms(p)[i].id : i \in DOMAIN validAtoms(p) }

\* validBonds (part_000:157-159); Set.has(undefined) is false.
validBonds(p) ==
  SelectSeq(p.bonds, LAMBDA b :
    /\ "source" \in DOMAIN b /\ b.source \in atomIdSet(p)
    /\ "target" \in DOMAIN b /\ b.target \in atomIdSet(p))

\* b.order || 1 (part_000:175): a missing order and 0 give 1, any other
\* number is passed on.
orderOrOne(b) == IF "order" \in DOMAIN b /\ b.order # 0 THEN b.order ELSE 1

\* rawMolecule (part_000:161-177).  String(x) of a string is that string.
rawMolecule(p, t) ==
  [ id |-> << "product", p.index, t >>,
    name |-> IF Truthy(p, "name") THEN p.name ELSE "Product",
    atoms |-> [ i \in DOMAIN validAtoms(p) |->
                  [ id |-> validAtoms(p)[i].id, element |-> validAtoms(p)[i].element,
                    x |-> 0, y |-> 0 ] ],
    bonds |-> [ i \in DOMAIN validBonds(p) |->
                  [ id |-> << "bond", p.index, i - 1 >>,
                    sourceAtomId |-> validBonds(p)[i].source,
                    targetAtomId |-> validBonds(p)[i].target,
                    order |-> orderOrOne(validBonds(p)[i]) ] ] ]

\* ===================================================== layoutService
\* The margin of the clamp (part_000:241-242) and the box simulateReaction
\* lays products out in (part_000:181).
LayoutMargin == 30
ProductWidth == 400
ProductHeight == 300

Min(a, b) == IF a < b THEN a ELSE b
Max(a, b) == IF a > b THEN a ELSE b

\* Positions the 300 ticks of the d3 simulation may leave a node at: below
\* the canvas, and two places beyond its top left corner.
SimPoints == { << -100, -80 >>, << 200, 1000 >>, << -40, -50 >> }

\* One outcome of the simulation: a position for each node, no two nodes at
\* the same one (forceCollide and the charge keep the nodes apart,
\* part_000:223-226).
SimOutcomes(molecule) ==
  { sim \in [ DOMAIN molecule.atoms -> SimPoints ] :
      \A i, j \in DOMAIN molecule.atoms : i # j => sim[i] # sim[j] }

\* d3.forceLink resolves each link end with .id(d => d.id) and throws
\* "node not found" for an end that no node carries (part_000:221-227).
LinksResolve(molecule) ==
  \A i \in DOMAIN molecule.bonds :
    /\ molecule.bonds[i].sourceAtomId \in AtomIds(molecule)
    /\ molecule.bonds[i].targetAtomId \in AtomIds(molecule)

\* A clamp that bounds the coordinate from above only.
clampUpperOnly(v, size) == Min(size - LayoutMargin, v)

\* Math.max(30, Math.min(size - 30, v)) (part_000:241-242)
clamp(v, size) == Max(LayoutMargin, Min(size - LayoutMargin, v))

\* autoLayoutMolecule (part_000:204-246), given the positions sim that the
\* simulation ends with.
autoLayoutMolecule(molecule, width, height, sim) ==
  IF Len(molecule.atoms) = 0 THEN molecule
  ELSE [ molecule EXCEPT
           !.atoms = [ i \in DOMAIN molecule.atoms |->
                         [ id |-> molecule.atoms[i].id,
                           element |-> molecule.atoms[i].element,
                           x |-> clamp(sim[i][1], width),
                           y |-> clamp(sim[i][2], height) ] ] ]

\* --------------------------------------- specification: one product graph
InitReaction ==
  /\ InitBuilder
  /\ input \in ProductGraphs
  /\ output = NotRun
  /\ NotLive /\ InitLab /\ NoHeap

\* The body of the products.map callback (part_000:151-182) for input; an
\* exception from the layout makes the whole call fail (part_000:189-192).
simulateReaction(t, sim) ==
  /\ input.kind = "product"
  /\ ~output.done
  /\ output' =
       IF Len(rawMolecule(input, t).atoms) = 0 \/ LinksResolve(rawMolecule(input, t))
       THEN [ done |-> TRUE, failed |-> FALSE,
              molecule |-> autoLayoutMolecule(rawMolecule(input, t),
                                              ProductWidth, ProductHeight, sim) ]
       ELSE [ done |-> TRUE, failed |-> TRUE ]
  /\ clock' = t
  /\ UNCHANGED << builderVars, internalMolecule, draggedAtomId, selectedAtomId,
                  viewVars, isDraggingRef, gesture, input, liveVars, labVars, heap >>

NextReaction ==
  \E t \in Now : \E sim \in SimOutcomes(rawMolecule(input, t)) : simulateReaction(t, sim)

SpecReaction == InitReaction /\ [][NextReaction]_vars


\* ------------------------------------- specification: one call of the layout
\* Molecules handed to autoLayoutMolecule: the empty one, a product as
\* rawMolecule builds it (atoms at 0,0), a drawn molecule, one whose atoms lie
\* outside the canvas, and one with a bond whose source atom was erased.
LayoutMolecules ==
  { EmptyMolecule(<<"temp-builder", 0>>),
    Hydroxide,
    [ Hydroxide EXCEPT !.atoms = [ i \in DOMAIN @ |-> [ @[i] EXCEPT !.x = 0, !.y = 0 ] ] ],
    [ Hydroxide EXCEPT !.atoms = [ i \in DOMAIN @ |-> [ @[i] EXCEPT !.x = 900 * i, !.y = -50 ] ] ],
    [ Hydroxide EXCEPT !.atoms = SubSeq(@, 2, 2) ],
    [ Hydroxide EXCEPT !.atoms = SubSeq(@, 2, 2), !.bonds = <<>> ] }

\* Canvas sizes: the Builder's (constants.ts:14, 102), the product box
\* (part_000:181) and canvases narrower or lower than two margins.
LayoutWidths == { 40, 59, 60, ProductWidth, CanvasWidth }
LayoutHeights == { 40, 60, ProductHeight, CanvasHeight }

InitLayout ==
  /\ InitBuilder
  /\ input \in { [ kind |-> "layout", molecule |-> m, width |-> w, height |-> h ] :
                   m \in LayoutMolecules, w \in LayoutWidths, h \in LayoutHeights }
  /\ output = NotRun
  /\ NotLive /\ InitLab /\ NoHeap

\* One call autoLayoutMolecule(input.molecule, input.width, input.height);
\* with atoms and an unresolved link, d3.forceLink throws.
autoLayout(sim) ==
  /\ input.kind = "layout"
  /\ ~output.done
  /\ output' =
       IF Len(input.molecule.atoms) = 0 \/ LinksResolve(input.molecule)
       THEN [ done |-> TRUE, failed |-> FALSE,
              molecule |-> autoLayoutMolecule(input.molecule, input.width, input.height, sim) ]
       ELSE [ done |-> TRUE, failed |-> TRUE ]
  /\ UNCHANGED << builderVars, internalMolecule, draggedAtomId, selectedAtomId,
                  viewVars, isDraggingRef, clock, gesture, input, liveVars, labVars,
                  heap >>

NextLayout == \E sim \in SimOutcomes(input.molecule) : autoLayout(sim)

SpecLayout == InitLayout /\ [][NextLayout]_vars

\* ============================================ Renderer: live auto-layout
\* A MoleculeRenderer with isAutoLayout (part_001:43-92), as ReactionLab
\* mounts it for a product (part_002:153-158), here interactive as well and,
\* as there, without an onUpdate.  Each run of the effect's live branch
\* creates a d3 simulation, kept in simulations in the order of creation:
\*   atoms    simulationAtoms, the nodes d3 moves
\*   links    simulationBonds
\*   running  d3's internal timer is alive (until stop() or convergence)
\*   timer    the 3 s setTimeout: "pending", "fired" or "cleared"
\*   cleaned  the effect's cleanup has run for it
\*   ticks    how often its tick callback has run

\* bounds: simulations created, and ticks of one simulation
MaxSims == 2
MaxLiveTicks == 1

\* A second saved molecule: one hydrogen atom.
Hydrogen ==
  [ id |-> <<"mol", 2>>, name |-> "Hydrogen",
    atoms |-> << [id |-> 1, element |-> "H", x |-> 300, y |-> 200] >>,
    bonds |-> <<>> ]

\* Molecules the parent passes as the molecule prop.
LiveMolecules == { EmptyMolecule(<<"temp-builder", 0>>), Hydroxide, Hydrogen }

\* Where a simulation's nodes start: near the centre of the 250 x 200 box
\* (part_001:49-50), with the random offset the model draws.
StartPoints == { <<125, 100>> }
StartPositions(molecule) == [ DOMAIN molecule.atoms -> StartPoints ]

\* Where a tick may move a node.
LivePoints == { <<120, 100>>, <<130, 100>> }
LivePositions(molecule) == [ DOMAIN molecule.atoms -> LivePoints ]

\* The simulation a run of the live branch creates (part_001:46-81).
StartSimulation(molecule, pos) ==
  [ atoms |-> [ i \in DOMAIN molecule.atoms |->
                  [ id |-> molecule.atoms[i].id, element |-> molecule.atoms[i].element,
                    x |-> pos[i][1], y |-> pos[i][2] ] ],
    links |-> SelectSeq(molecule.bonds, LAMBDA b :
                b.sourceAtomId \in AtomIds(molecule) /\ b.targetAtomId \in AtomIds(molecule)),
    running |-> TRUE, timer |-> "pending", cleaned |-> FALSE, ticks |-> 0 ]

\* A cleanup that stops the simulation and leaves its timer pending.
effectCleanupKeepsTimer(sims) ==
  [ i \in DOMAIN sims |->
      IF i = Len(sims) /\ ~sims[i].cleaned
      THEN [ sims[i] EXCEPT !.running = FALSE, !.cleaned = TRUE ]
      ELSE sims[i] ]

\* A cleanup that clears the timer and leaves the simulation running.
effectCleanupKeepsRunning(sims) ==
  [ i \in DOMAIN sims |->
      IF i = Len(sims) /\ ~sims[i].cleaned
      THEN [ sims[i] EXCEPT !.timer = IF @ = "pending" THEN "cleared" ELSE @,
                            !.cleaned = TRUE ]
      ELSE sims[i] ]

\* The cleanup the live branch returns (part_001:82-85): React runs it
\* before the next run of the effect and at unmount; it belongs to the
\* latest simulation, if that one has not been cleaned up yet.
effectCleanup(sims) ==
  [ i \in DOMAIN sims |->
      IF i = Len(sims) /\ ~sims[i].cleaned
      THEN [ sims[i] EXCEPT !.running = FALSE,
                            !.timer = IF @ = "pending" THEN "cleared" ELSE @,
                            !.cleaned = TRUE ]
      ELSE sims[i] ]

\* The effect (part_001:43-92) after a render in which one of its
\* dependencies changed: newMol is the molecule prop of that render,
\* afterHandler what the handler left in internalMolecule, pos the random
\* start positions.
LayoutEffect(newMol, afterHandler, pos) ==
  IF isAutoLayout' /\ Len(newMol.atoms) > 0
  THEN /\ Len(simulations) < MaxSims
       /\ simulations' = Append(effectCleanup(simulations), StartSimulation(newMol, pos))
       /\ internalMolecule' = afterHandler
  ELSE /\ simulations' = effectCleanup(simulations)
       /\ internalMolecule' = IF draggedAtomId' = Null THEN newMol ELSE afterHandler

\* The viewer right after mounting with isAutoLayout and its first effect.
InitLive ==
  /\ currentMolecule \in LiveMolecules
  /\ history = <<>>
  /\ mode = "build"
  /\ internalMolecule = currentMolecule
  /\ draggedAtomId = Null
  /\ selectedAtomId = Null
  /\ transform = [ k |-> KUnit, x |-> 0, y |-> 0 ]
  /\ isPanning = FALSE
  /\ lastPanRef = NoPoint
  /\ isDraggingRef = FALSE
  /\ clock = ClockStart
  /\ gesture = GestureUp
  /\ isAutoLayout = TRUE
  /\ mounted = TRUE
  /\ simulations \in IF Len(currentMolecule.atoms) > 0
                     THEN { << StartSimulation(currentMolecule, pos) >> :
                              pos \in StartPositions(currentMolecule) }
                     ELSE { <<>> }
  /\ input = NoInput /\ output = NotRun
  /\ InitLab /\ NoHeap

\* What the live viewer's own handlers leave alone.
liveFrame == << mode, selectedAtomId, viewVars, clock, serviceVars, labVars, heap >>

\* The parent renders the viewer with another molecule.
ReplaceMolecule(m, pos) ==
  /\ mounted
  /\ m # currentMolecule
  /\ currentMolecule' = m
  /\ UNCHANGED << history, draggedAtomId, isDraggingRef, gesture, isAutoLayout, mounted,
                  liveFrame >>
  /\ LayoutEffect(m, internalMolecule, pos)

\* The parent renders the viewer with the other value of isAutoLayout.
ToggleAutoLayout(pos) ==
  /\ mounted
  /\ isAutoLayout' = ~isAutoLayout
  /\ UNCHANGED << currentMolecule, history, draggedAtomId, isDraggingRef, gesture, mounted,
                  liveFrame >>
  /\ LayoutEffect(currentMolecule, internalMolecule, pos)

\* handleAtomPointerDown (part_001:129-137) in build mode, and the effect
\* that follows the change of draggedAtomId.
LiveAtomPointerDown(atomId, pos) ==
  /\ mounted
  /\ gesture.phase = "up"
  /\ atomId \in AtomIds(internalMolecule)
  /\ mode # "erase"
  /\ gesture' = [ phase |-> "down", kind |-> "atom", ref |-> atomId ]
  /\ draggedAtomId' = atomId
  /\ isDraggingRef' = FALSE
  /\ UNCHANGED << currentMolecule, history, isAutoLayout, mounted, liveFrame >>
  /\ LayoutEffect(currentMolecule, internalMolecule, pos)

\* handlePointerMove (part_001:139-170); there is no onUpdate to call, and
\* no pan is started in this viewer.
LivePointerMove(p) ==
  /\ mounted
  /\ \/ /\ draggedAtomId # Null
        /\ isDraggingRef' = TRUE
        /\ UNCHANGED << currentMolecule, history, draggedAtomId, gesture, isAutoLayout,
                        mounted, simulations, liveFrame >>
        /\ LET x == ((p[1] - transform.x) * KUnit) \div transform.k
               y == ((p[2] - transform.y) * KUnit) \div transform.k
               newAtoms == [ i \in DOMAIN internalMolecule.atoms |->
                               IF internalMolecule.atoms[i].id = draggedAtomId
                               THEN [ internalMolecule.atoms[i] EXCEPT !.x = x, !.y = y ]
                               ELSE internalMolecule.atoms[i] ]
               updatedMolecule == [ internalMolecule EXCEPT !.atoms = newAtoms ]
           IN internalMolecule' = updatedMolecule
     \/ /\ draggedAtomId = Null
        /\ ~(isPanning /\ lastPanRef # NoPoint)
        /\ UNCHANGED vars

\* handlePointerUp (part_001:172-177) and the effect that follows the
\* change of draggedAtomId.
LivePointerUp(pos) ==
  /\ mounted
  /\ gesture.phase = "down"
  /\ draggedAtomId' = Null
  /\ isPanning' = FALSE
  /\ lastPanRef' = NoPoint
  /\ gesture' = GestureUp
  /\ UNCHANGED << currentMolecule, history, mode, selectedAtomId, transform, isDraggingRef,
                  clock, serviceVars, isAutoLayout, mounted, labVars, heap >>
  /\ IF draggedAtomId # Null
     THEN LayoutEffect(currentMolecule, internalMolecule, pos)
     ELSE UNCHANGED << simulations, internalMolecule >>

\* One step of d3's timer for simulation i: the nodes move to pos and the
\* tick callback (part_001:69-79) replaces the atoms shown.  stop() ends the
\* timer, and React drops the update of an unmounted component.
Tick(i, pos) ==
  /\ simulations[i].running
  /\ simulations[i].ticks < MaxLiveTicks
  /\ LET moved == [ k \in DOMAIN simulations[i].atoms |->
                      [ simulations[i].atoms[k] EXCEPT !.x = pos[k][1], !.y = pos[k][2] ] ]
     IN /\ simulations' = [ simulations EXCEPT ![i].atoms = moved, ![i].ticks = @ + 1 ]
        /\ internalMolecule' =
             IF mounted
             THEN [ internalMolecule EXCEPT
                      !.atoms = [ k \in DOMAIN moved |->
                                    [ id |-> moved[k].id, element |-> moved[k].element,
                                      x |-> moved[k].x, y |-> moved[k].y ] ] ]
             ELSE internalMolecule
  /\ UNCHANGED << currentMolecule, history, draggedAtomId, isDraggingRef, gesture,
                  isAutoLayout, mounted, liveFrame >>

\* The 3 s timer of simulation i fires (part_001:81): simulation.stop().
Cutoff(i) ==
  /\ simulations[i].timer = "pending"
  /\ simulations' = [ simulations EXCEPT ![i].timer = "fired", ![i].running = FALSE ]
  /\ UNCHANGED << currentMolecule, history, internalMolecule, draggedAtomId, isDraggingRef,
                  gesture, isAutoLayout, mounted, liveFrame >>

\* Simulation i has cooled down (alpha below alphaMin) and d3 stops its timer
\* by itself (part_001:63-67).
SimulationEnd(i) ==
  /\ simulations[i].running
  /\ simulations' = [ simulations EXCEPT ![i].running = FALSE ]
  /\ UNCHANGED << currentMolecule, history, internalMolecule, draggedAtomId, isDraggingRef,
                  gesture, isAutoLayout, mounted, liveFrame >>

\* The viewer is unmounted: React runs the effect's cleanup (part_001:82-85).
Unmount ==
  /\ mounted
  /\ mounted' = FALSE
  /\ simulations' = effectCleanup(simulations)
  /\ UNCHANGED << currentMolecule, history, internalMolecule, draggedAtomId, isDraggingRef,
                  gesture, isAutoLayout, liveFrame >>

NextLive ==
  \/ \E m \in LiveMolecules : \E pos \in StartPositions(m) : ReplaceMolecule(m, pos)
  \/ \E pos \in StartPositions(currentMolecule) : ToggleAutoLayout(pos)
  \/ \E a \in AtomIds(internalMolecule) : \E pos \in StartPositions(currentMolecule) :
        LiveAtomPointerDown(a, pos)
  \/ \E p \in Points : LivePointerMove(p)
  \/ \E pos \in StartPositions(currentMolecule) : LivePointerUp(pos)
  \/ \E i \in DOMAIN simulations : \E pos \in LivePositions(simulations[i]) : Tick(i, pos)
  \/ \E i \in DOMAIN simulations : Cutoff(i)
  \/ \E i \in DOMAIN simulations : SimulationEnd(i)
  \/ Unmount

SpecLive == InitLive /\ [][NextLive]_vars

\* ========================================================== ReactionLab
\* ReactionLab (src/unnamed/part_002) and the whole of simulateReaction
\* (part_000:62-193).  handleReact is split at its await: HandleReact runs
\* up to the call, Settle is the continuation once the promise has settled.

\* The inventory passed as savedMolecules (part_002:7-9).
LabInventory == { Hydroxide, Hydrogen }

\* Product entries of a parsed response: a graph of one atom, a graph of two
\* bonded atoms, and null, on which the mapping callback throws a TypeError.
NullProduct == [ kind |-> "null" ]
LabProducts ==
  { [ kind |-> "product", name |-> "Hydrogen",
      atoms |-> << [ id |-> "1", element |-> "H" ] >>, bonds |-> <<>> ],
    [ kind |-> "product",
      atoms |-> << [ id |-> "1", element |-> "H" ], [ id |-> "2", element |-> "H" ] >>,
      bonds |-> << [ source |-> "1", target |-> "2", order |-> 1 ] >> ],
    NullProduct }

\* How the collaborator may answer: no API key, a rejected call, no text, a
\* text that is no JSON, and parsed JSON data (with or without equation,
\* explanation and products).
LabResponses ==
  { [ kind |-> "noKey" ], [ kind |-> "rejects" ], [ kind |-> "noText" ],
    [ kind |-> "notJSON" ],
    [ kind |-> "data" ] }
    \cup { [ kind |-> "data", products |-> ps ] : ps \in SeqsUpTo(LabProducts, 2) }
    \cup { [ kind |-> "data", equation |-> "2 H -> H2", explanation |-> "Two atoms bond.",
             products |-> << p >> ] : p \in LabProducts }

\* data.products || [] (part_000:151)
productsOrNone(response) ==
  IF "products" \in DOMAIN response THEN response.products ELSE <<>>

\* The try block (part_000:93-188) throws: the call rejects, the text is
\* missing or no JSON, or the mapping callback throws on a product.
tryThrows(response, t) ==
  \/ response.kind \in { "rejects", "noText", "notJSON" }
  \/ /\ response.kind = "data"
     /\ \E i \in DOMAIN productsOrNone(response) :
          LET p == productsOrNone(response)[i]
          IN \/ p.kind = "null"
             \/ /\ p.kind = "product"
                /\ LET raw == rawMolecule(p @@ [ index |-> i - 1 ], t)
                   IN Len(raw.atoms) > 0 /\ ~LinksResolve(raw)

\* What the promise of simulateReaction settles to (part_000:62-193), sim
\* being where the layout's simulation leaves the nodes of a product.
simulateReactionCall(response, t, sim) ==
  IF response.kind = "noKey"
  THEN [ ok |-> FALSE, message |-> "API Key not found" ]
  ELSE IF tryThrows(response, t)
  THEN [ ok |-> FALSE, message |-> "Failed to simulate reaction. Please try again." ]
  ELSE [ ok |-> TRUE,
         value |->
           [ equation |-> IF Truthy(response, "equation") THEN response.equation
                          ELSE "Reaction Complete",
             explanation |-> IF Truthy(response, "explanation") THEN response.explanation
                             ELSE "The reactants formed new products.",
             products |->
               [ i \in DOMAIN productsOrNone(response) |->
                   autoLayoutMolecule(
                     rawMolecule(productsOrNone(response)[i] @@ [ index |-> i - 1 ], t),
                     ProductWidth, ProductHeight, sim) ] ] ]

InitReactionLab ==
  /\ InitBuilder
  /\ input = NoInput /\ output = NotRun
  /\ NotLive /\ InitLab /\ NoHeap

\* What ReactionLab's handlers leave alone.
labFrame == << builderVars, internalMolecule, draggedAtomId, selectedAtomId, viewVars,
               isDraggingRef, gesture, serviceVars, liveVars, heap >>

\* toggleReactant (part_002:17-23)
toggleReactant(mol) ==
  /\ reactants' =
       IF \E i \in DOMAIN reactants : reactants[i].id = mol.id
       THEN SelectSeq(reactants, LAMBDA r : r.id # mol.id)
       ELSE Append(reactants, mol)
  /\ UNCHANGED << result, loading, error, request, clock, labFrame >>

\* The Simulate Reaction button is rendered and enabled (part_002:101-121).
ReactButtonShown == result = NullRef /\ ~loading

\* A handleReact that leaves the previous error in place.
HandleReactKeepsError ==
  /\ ReactButtonShown
  /\ Len(reactants) # 0
  /\ loading' = TRUE
  /\ result' = NullRef
  /\ request' = [ reactants |-> reactants ]
  /\ UNCHANGED << reactants, error, clock, labFrame >>

\* handleReact up to its await (part_002:25-32), from the button.
HandleReact ==
  /\ ReactButtonShown
  /\ Len(reactants) # 0
  /\ loading' = TRUE
  /\ error' = NullRef
  /\ result' = NullRef
  /\ request' = [ reactants |-> reactants ]
  /\ UNCHANGED << reactants, clock, labFrame >>

\* The rest of handleReact (part_002:32-38) once the awaited promise has
\* settled: setResult or setError, then setLoading(false).  An Error's
\* message is a string; e.message || "..." keeps a non-empty one.
Settle(response, t, sim) ==
  /\ request # NullRef
  /\ LET settled == simulateReactionCall(response, t, sim)
     IN /\ result' = IF settled.ok THEN settled.value ELSE result
        /\ error' = IF settled.ok THEN error ELSE [ message |-> settled.message ]
  /\ loading' = FALSE
  /\ request' = NullRef
  /\ clock' = t
  /\ UNCHANGED << reactants, labFrame >>

\* reset (part_002:41-45); its button is rendered with a result (94-98).
reset ==
  /\ result # NullRef
  /\ reactants' = <<>>
  /\ result' = NullRef
  /\ error' = NullRef
  /\ UNCHANGED << loading, request, clock, labFrame >>

NextReactionLab ==
  \/ \E mol \in LabInventory : toggleReactant(mol)
  \/ HandleReact
  \/ \E response \in LabResponses, t \in Now : \E sim \in SimOutcomes(Hydroxide) :
        Settle(response, t, sim)
  \/ reset

SpecReactionLab == InitReactionLab /\ [][NextReactionLab]_vars

\* ============================================ geminiService: identification
\* identifyMolecule (part_000:16-57).  A string is the sequence of its
\* pieces: the characters of a name, the symbols and counts of a formula.

\* name.length > 50 (part_000:51)
NameLimit == 50

\* A second element count above one: water, O(1) H(2) H(3).
Water ==
  [ id |-> <<"mol", 3>>, name |-> "Water",
    atoms |-> << [id |-> 1, element |-> "O", x |-> 300, y |-> 200],
                 [id |-> 2, element |-> "H", x |-> 330, y |-> 200],
                 [id |-> 3, element |-> "H", x |-> 270, y |-> 200] >>,
    bonds |-> << [id |-> 1, sourceAtomId |-> 1, targetAtomId |-> 2, order |-> 1],
                 [id |-> 2, sourceAtomId |-> 1, targetAtomId |-> 3, order |-> 1] >> ]

IdentifyMolecules == { EmptyMolecule(<<"temp-builder", 0>>), Hydroxide, Hydrogen, Water }

\* Texts the collaborator may return: blanks, a name of n letters, blanks.
Letters(n) == [ i \in 1..n |-> "a" ]
NameLengths == { 0, 1, NameLimit, NameLimit + 1 }
Blanks == { <<>>, <<" ">>, <<" ", " ">> }
IdentifyTexts ==
  { lead \o Letters(n) \o trail : lead \in Blanks, trail \in Blanks, n \in NameLengths }
    \cup { <<"a", " ", "b">> }

\* How the collaborator may answer: a rejected call, a response without
\* text, a response with a text.
IdentifyResponses ==
  { [ kind |-> "rejects" ], [ kind |-> "noText" ] }
    \cup { [ kind |-> "text", text |-> s ] : s \in IdentifyTexts }

\* String.prototype.trim (part_000:49)
trim(s) ==
  LET kept == { i \in DOMAIN s : s[i] # " " }
  IN IF kept = {} THEN <<>>
     ELSE SubSeq(s, CHOOSE i \in kept : \A j \in kept : i <= j,
                    CHOOSE i \in kept : \A j \in kept : i >= j)

RECURSIVE join(_)
\* Array.prototype.join('') (part_000:27)
join(parts) == IF parts = <<>> THEN <<>> ELSE Head(parts) \o join(Tail(parts))

\* The locally computed formula (part_000:23-27): the elements in the order
\* of their first atom, each followed by its count when that is above one.
formula(molecule) ==
  LET atoms == molecule.atoms
      firsts == SelectSeq([ i \in DOMAIN atoms |-> i ],
                          LAMBDA i : \A j \in 1..(i - 1) : atoms[j].element # atoms[i].element)
      count(el) == Cardinality({ i \in DOMAIN atoms : atoms[i].element = el })
  IN join([ k \in DOMAIN firsts |->
              IF count(atoms[firsts[k]].element) > 1
              THEN << atoms[firsts[k]].element, ToString(count(atoms[firsts[k]].element)) >>
              ELSE << atoms[firsts[k]].element >> ])

InitIdentify ==
  /\ InitBuilder
  /\ input \in { [ kind |-> "identify", apiKey |-> k, molecule |-> m, response |-> r ] :
                   k \in BOOLEAN, m \in IdentifyMolecules, r \in IdentifyResponses }
  /\ output = NotRun
  /\ NotLive /\ InitLab /\ NoHeap

\* One call identifyMolecule(input.molecule): getClient (part_000:5-11) runs
\* before the try and throws without an API key; inside the try a rejected
\* call, a missing, blank or long name all give the formula.
identifyMolecule ==
  /\ input.kind = "identify"
  /\ ~output.done
  /\ output' =
       IF ~input.apiKey
       THEN [ done |-> TRUE, failed |-> TRUE, message |-> "API Key not found" ]
       ELSE [ done |-> TRUE, failed |-> FALSE,
              value |->
                IF input.response.kind # "text" THEN formula(input.molecule)
                ELSE LET name == trim(input.response.text)
                     IN IF name = <<>> \/ Len(name) > NameLimit
                        THEN formula(input.molecule)
                        ELSE name ]
  /\ UNCHANGED << builderVars, internalMolecule, draggedAtomId, selectedAtomId,
                  viewVars, isDraggingRef, clock, gesture, input, liveVars, labVars,
                  heap >>

NextIdentify == identifyMolecule

SpecIdentify == InitIdentify /\ [][NextIdentify]_vars

\* ================================================== Renderer: zoom and pan
\* handleZoom, handleResetZoom and handleWheel (part_001:95-119) on the
\* Builder's renderer, together with the pan of the pointer handlers.
\* transform.k is kept in units of 1/KUnit and a factor likewise; products
\* and quotients are rounded down to that unit.

\* The limits 0.2 and 5 of the scale (part_001:97), in units of 1/KUnit.
ZoomMin == 20
ZoomMax == 500

\* The factors of the two zoom buttons (part_001:342, 345).
ZoomInFactor == 120
ZoomOutFactor == 80

\* Wheel movements: e.deltaY.
WheelDeltas == { -100, 0, 100 }

\* Where the pointer goes while panning.
PanPoints == Points \cup { << 330, 200 >> }

\* A zoom that bounds the scale from above only.
handleZoomNoLowerLimit(factor) ==
  LET newK == Min(ZoomMax, (transform.k * factor) \div KUnit)
      cx == CanvasWidth \div 2
      cy == CanvasHeight \div 2
  IN /\ transform' = [ k |-> newK,
                       x |-> cx - ((cx - transform.x) * newK) \div transform.k,
                       y |-> cy - ((cy - transform.y) * newK) \div transform.k ]
     /\ UNCHANGED << builderVars, internalMolecule, draggedAtomId, selectedAtomId,
                     isPanning, lastPanRef, isDraggingRef, clock, gesture >>

\* handleZoom (part_001:95-108); width and height are the Builder's canvas.
handleZoom(factor) ==
  LET newK == Max(ZoomMin, Min(ZoomMax, (transform.k * factor) \div KUnit))
      cx == CanvasWidth \div 2
      cy == CanvasHeight \div 2
  IN /\ transform' = [ k |-> newK,
                       x |-> cx - ((cx - transform.x) * newK) \div transform.k,
                       y |-> cy - ((cy - transform.y) * newK) \div transform.k ]
     /\ UNCHANGED << builderVars, internalMolecule, draggedAtomId, selectedAtomId,
                     isPanning, lastPanRef, isDraggingRef, clock, gesture >>

\* The Zoom In and Zoom Out buttons (part_001:342-347).
ZoomButton(factor) ==
  /\ ButtonReady
  /\ handleZoom(factor)

\* handleWheel (part_001:115-119)
handleWheel(deltaY) ==
  handleZoom(IF deltaY > 0 THEN 90 ELSE 110)

\* handleResetZoom (part_001:110-113), the Reset View button.
handleResetZoom ==
  /\ ButtonReady
  /\ transform' = [ k |-> KUnit, x |-> 0, y |-> 0 ]
  /\ UNCHANGED << builderVars, internalMolecule, draggedAtomId, selectedAtomId,
                  isPanning, lastPanRef, isDraggingRef, clock, gesture >>

NextZoom ==
  \/ /\ UNCHANGED offPageVars
     /\ \E factor \in { ZoomInFactor, ZoomOutFactor } : ZoomButton(factor)
  \/ /\ UNCHANGED offPageVars
     /\ \E deltaY \in WheelDeltas : handleWheel(deltaY)
  \/ /\ UNCHANGED offPageVars
     /\ handleResetZoom
  \/ /\ UNCHANGED offPageVars
     /\ \E p \in PanPoints : SvgPointerDown(p)
  \/ /\ UNCHANGED offPageVars
     /\ \E p \in PanPoints : PointerMove(p)
  \/ /\ UNCHANGED offPageVars
     /\ \E t \in Now : PointerUp(t)

SpecZoom == Init /\ [][NextZoom]_vars

\* ================================================= objects and references
\* The same handlers once more, with atoms and bonds as objects of a heap:
\* a molecule holds the addresses of its atom and bond objects, an array is
\* the sequence of the addresses it holds, and heap maps each live address to
\* the object's properties.  Spreads, map and filter build new arrays, a
\* literal or a spread allocates a new object, and d3 assigns to properties
\* of the node and link objects it is given.  Objects no molecule, snapshot
\* or simulation refers to any more are dropped, and the others are
\* numbered in the order in which the state refers to them.  heap is
\*   now   the properties of each object
\*   born  the properties each atom and bond was created with, kept to tell
\*         an object that was written to from one that was not (for a
\*         link, whose ends are addresses, its present properties)

\* bounds: objects alive at once, snapshots kept, live viewers mounted
MaxObjects == 13
MaxSnapshots == 1
MaxViewers == 1

\* The inventory: hydroxide, its atoms at addresses 1 and 2, its bond at 3.
SavedHeap ==
  [ a \in 1..(Len(Hydroxide.atoms) + Len(Hydroxide.bonds)) |->
      IF a <= Len(Hydroxide.atoms) THEN Hydroxide.atoms[a]
      ELSE Hydroxide.bonds[a - Len(Hydroxide.atoms)] ]
SavedRef ==
  [ Hydroxide EXCEPT
      !.atoms = [ i \in DOMAIN @ |-> i ],
      !.bonds = [ i \in DOMAIN @ |-> Len(Hydroxide.atoms) + i ] ]

Range(s) == { s[i] : i \in DOMAIN s }

\* n addresses not in use, the lowest first.
Fresh(h, n) ==
  LET free == (1..(Cardinality(DOMAIN h) + n)) \ DOMAIN h
  IN [ k \in 1..n |-> CHOOSE a \in free : Cardinality({ b \in free : b < a }) = k - 1 ]

\* The heap with objs stored at addrs.
Store(h, addrs, objs) ==
  [ a \in Range(addrs) |-> objs[CHOOSE k \in DOMAIN addrs : addrs[k] = a] ] @@ h

\* Addresses a molecule value refers to.
MoleculeAddrs(m) == Range(m.atoms) \cup Range(m.bonds)

\* The addresses a state refers to, in a fixed order: the inventory, the
\* Builder's molecule, its snapshots, then each simulation's viewer, nodes
\* and links.
MoleculeRefs(m) == m.atoms \o m.bonds
RECURSIVE HistoryRefs(_)
HistoryRefs(hist) ==
  IF hist = <<>> THEN <<>> ELSE MoleculeRefs(Head(hist)) \o HistoryRefs(Tail(hist))
RECURSIVE SimulationRefs(_)
SimulationRefs(sims) ==
  IF sims = <<>> THEN <<>>
  ELSE MoleculeRefs(Head(sims).shown) \o Head(sims).nodes \o Head(sims).links
         \o SimulationRefs(Tail(sims))
Roots(cur, hist, sims) ==
  MoleculeRefs(SavedRef) \o MoleculeRefs(cur) \o HistoryRefs(hist) \o SimulationRefs(sims)

Objects == heap.now

\* What the handlers of this section leave alone.
shareFrame == << mode, internalMolecule, draggedAtomId, selectedAtomId, viewVars,
                 isDraggingRef, gesture, serviceVars, isAutoLayout, mounted, labVars >>

\* What a handler leaves: the Builder's molecule and snapshots, the
\* simulations and the objects.
Left(cur, hist, sims, h) == [ cur |-> cur, hist |-> hist, sims |-> sims, heap |-> h @@ <<>> ]

\* The same with the objects that are still referred to, renumbered.
Numbered(left) ==
  LET roots == Roots(left.cur, left.hist, left.sims)
      firsts == { i \in DOMAIN roots : \A j \in 1..(i - 1) : roots[j] # roots[i] }
      to == [ a \in Range(roots) |->
                Cardinality({ i \in firsts :
                                i <= CHOOSE k \in firsts : roots[k] = a }) ] @@ <<>>
      from == [ n \in 1..Cardinality(firsts) |-> CHOOSE a \in Range(roots) : to[a] = n ] @@ <<>>
      moved(s) == [ i \in DOMAIN s |-> to[s[i]] ]
      movedMolecule(m) == [ m EXCEPT !.atoms = moved(@), !.bonds = moved(@) ]
      movedObject(o) ==
        IF "source" \in DOMAIN o
        THEN [ o EXCEPT !.source = to[@], !.target = to[@] ]
        ELSE o
  IN [ cur |-> movedMolecule(left.cur),
       hist |-> [ i \in DOMAIN left.hist |-> movedMolecule(left.hist[i]) ],
       sims |-> [ i \in DOMAIN left.sims |->
                    [ left.sims[i] EXCEPT !.nodes = moved(@), !.links = moved(@),
                                          !.shown = movedMolecule(@) ] ],
       heap |-> [ now  |-> [ n \in DOMAIN from |-> movedObject(left.heap[from[n]]) ],
                  born |-> [ n \in DOMAIN from |->
                               IF from[n] \in DOMAIN heap.born
                                  /\ "source" \notin DOMAIN left.heap[from[n]]
                               THEN heap.born[from[n]]
                               ELSE movedObject(left.heap[from[n]]) ] ] ]

Commit(left) ==
  /\ Cardinality(Range(Roots(left.cur, left.hist, left.sims))) <= MaxObjects
  /\ Len(left.hist) <= MaxSnapshots
  /\ heap' = Numbered(left).heap
  /\ currentMolecule' = Numbered(left).cur
  /\ history' = Numbered(left).hist
  /\ simulations' = Numbered(left).sims
  /\ UNCHANGED shareFrame

InitShare ==
  /\ InitBuilder
  /\ input = NoInput /\ output = NotRun
  /\ NotLive /\ InitLab
  /\ heap = [ now |-> SavedHeap, born |-> SavedHeap ]

\* handleLoad (constants.ts:116-123): JSON.parse(JSON.stringify(mol))
\* allocates every atom and bond anew.
handleLoadLeaves(mol) ==
  LET atomAddrs == Fresh(Objects, Len(mol.atoms))
      h1 == Store(Objects, atomAddrs, [ i \in DOMAIN mol.atoms |-> Objects[mol.atoms[i]] ])
      bondAddrs == Fresh(h1, Len(mol.bonds))
      h2 == Store(h1, bondAddrs, [ i \in DOMAIN mol.bonds |-> Objects[mol.bonds[i]] ])
  IN Left([ mol EXCEPT !.atoms = atomAddrs, !.bonds = bondAddrs ], <<>>, simulations, h2)
loadByRef(mol) ==
  /\ Commit(handleLoadLeaves(mol))
  /\ UNCHANGED clock

\* addAtom (constants.ts:54-69)
addAtomLeaves(element, t) ==
  LET addr == Fresh(Objects, 1)
  IN Left([ currentMolecule EXCEPT !.atoms = @ \o addr ], saveHistory, simulations,
          Store(Objects, addr, << [ id |-> t, element |-> element,
                                    x |-> CanvasWidth \div 2, y |-> CanvasHeight \div 2 ] >>))
addAtomByRef(element, t) ==
  /\ Len(currentMolecule.atoms) < MaxAtoms
  /\ Commit(addAtomLeaves(element, t))
  /\ clock' = t

\* handleAtomDelete (constants.ts:71-78): two filters, no new object.
deleteAtomByRef(atomId) ==
  /\ Commit(Left([ currentMolecule EXCEPT
                     !.atoms = SelectSeq(@, LAMBDA a : Objects[a].id # atomId),
                     !.bonds = SelectSeq(@, LAMBDA b : Objects[b].sourceAtomId # atomId
                                                       /\ Objects[b].targetAtomId # atomId) ],
                 saveHistory, simulations, Objects))
  /\ UNCHANGED clock

\* handleAtomClick with a bond source selected (part_001:194-222), on the
\* molecule the Builder passed in, then handleMoleculeUpdate
\* (constants.ts:88-97): an existing bond is replaced by a copy with the next
\* order, otherwise a new bond object is appended.
BondsJoining(selected, atomId) ==
  { i \in DOMAIN currentMolecule.bonds :
      LET b == Objects[currentMolecule.bonds[i]]
      IN \/ b.sourceAtomId = selected /\ b.targetAtomId = atomId
         \/ b.targetAtomId = selected /\ b.sourceAtomId = atomId }
cycleBondLeaves(selected, atomId) ==
  LET existing == BondsJoining(selected, atomId)
      firstIndex == CHOOSE i \in existing : \A j \in existing : i <= j
      bond == Objects[currentMolecule.bonds[firstIndex]]
      addr == Fresh(Objects, 1)
  IN Left([ currentMolecule EXCEPT !.bonds[firstIndex] = addr[1] ], history, simulations,
          Store(Objects, addr, << [ bond EXCEPT !.order = newOrder(@) ] >>))
newBondLeaves(selected, atomId, t) ==
  LET addr == Fresh(Objects, 1)
  IN Left([ currentMolecule EXCEPT !.bonds = @ \o addr ], saveHistory, simulations,
          Store(Objects, addr, << [ id |-> t, sourceAtomId |-> selected,
                                    targetAtomId |-> atomId, order |-> 1 ] >>))
clickBondByRef(selected, atomId, t) ==
  /\ selected # atomId
  /\ IF BondsJoining(selected, atomId) # {}
     THEN /\ Commit(cycleBondLeaves(selected, atomId))
          /\ UNCHANGED clock
     ELSE /\ Commit(newBondLeaves(selected, atomId, t))
          /\ clock' = t

\* handlePointerMove while an atom is dragged (part_001:143-163): the dragged
\* atom is replaced by a copy at the pointer, the others are kept.
dragLeaves(atomId, p) ==
  LET hit == { i \in DOMAIN currentMolecule.atoms : Objects[currentMolecule.atoms[i]].id = atomId }
      addrs == Fresh(Objects, Cardinality(hit))
      place(i) == Cardinality({ j \in hit : j <= i })
  IN Left([ currentMolecule EXCEPT
              !.atoms = [ i \in DOMAIN @ |-> IF i \in hit THEN addrs[place(i)] ELSE @[i] ] ],
          history, simulations,
          Store(Objects, addrs,
                [ k \in 1..Cardinality(hit) |->
                    [ Objects[currentMolecule.atoms[CHOOSE i \in hit : place(i) = k]]
                        EXCEPT !.x = p[1], !.y = p[2] ] ]))
dragByRef(atomId, p) ==
  /\ Commit(dragLeaves(atomId, p))
  /\ UNCHANGED clock

\* What d3 assigns to the objects it is given: forceSimulation gives each
\* node index, vx and vy, forceLink replaces each link's source and target
\* by the node objects and gives it an index, and a tick moves the nodes.
d3InitNode(node, i) == [ index |-> i - 1, vx |-> 0, vy |-> 0 ] @@ node
d3InitLink(link, i, nodes, h) ==
  [ index |-> i - 1,
    source |-> CHOOSE a \in Range(nodes) : h[a].id = link.source,
    target |-> CHOOSE a \in Range(nodes) : h[a].id = link.target ] @@ link
d3Tick(node, p) == [ x |-> p[1], y |-> p[2] ] @@ node

\* A layout that hands the molecule's own atoms to the simulation.
layoutNodesShared(h, molecule, width, height) ==
  [ nodes |-> molecule.atoms, heap |-> h ]

\* const nodes = molecule.atoms.map(a => ({...a, x: ..., y: ...}))
\* (part_000:209-213)
layoutNodes(h, molecule, width, height) ==
  LET addrs == Fresh(h, Len(molecule.atoms))
      stacked(a) == a.x = 0 /\ a.y = 0
  IN [ nodes |-> addrs,
       heap |-> Store(h, addrs,
                  [ i \in DOMAIN molecule.atoms |->
                      [ h[molecule.atoms[i]] EXCEPT
                          !.x = IF stacked(h[molecule.atoms[i]]) THEN width \div 2 ELSE @,
                          !.y = IF stacked(h[molecule.atoms[i]]) THEN height \div 2 ELSE @ ] ]) ]

\* const links = molecule.bonds.map(b => ({...b, source, target}))
\* (part_000:215-219)
layoutLinks(h, bonds) ==
  LET addrs == Fresh(h, Len(bonds))
  IN [ links |-> addrs,
       heap |-> Store(h, addrs,
                  [ i \in DOMAIN bonds |->
                      [ source |-> h[bonds[i]].sourceAtomId,
                        target |-> h[bonds[i]].targetAtomId ] @@ h[bonds[i]] ]) ]

\* d3.forceSimulation(nodes).force("link", d3.forceLink(links)...)
d3Simulation(h, nodes, links) ==
  LET h1 == Store(h, nodes, [ i \in DOMAIN nodes |-> d3InitNode(h[nodes[i]], i) ])
  IN Store(h1, links, [ i \in DOMAIN links |-> d3InitLink(h1[links[i]], i, nodes, h1) ])

\* handleAutoLayout (constants.ts:99-104) with autoLayoutMolecule
\* (part_000:204-246): the simulation runs on nodes and links, the result
\* has new atom objects and the bonds array of the argument.
autoLayoutLeaves(sim) ==
  LET n == layoutNodes(Objects, currentMolecule, CanvasWidth, CanvasHeight)
      l == layoutLinks(n.heap, currentMolecule.bonds)
      h1 == d3Simulation(l.heap, n.nodes, l.links)
      h2 == Store(h1, n.nodes, [ i \in DOMAIN n.nodes |-> d3Tick(h1[n.nodes[i]], sim[i]) ])
      out == Fresh(h2, Len(n.nodes))
      h3 == Store(h2, out,
                  [ i \in DOMAIN n.nodes |->
                      [ id |-> h2[n.nodes[i]].id, element |-> h2[n.nodes[i]].element,
                        x |-> clamp(h2[n.nodes[i]].x, CanvasWidth),
                        y |-> clamp(h2[n.nodes[i]].y, CanvasHeight) ] ])
  IN Left([ currentMolecule EXCEPT !.atoms = out ], saveHistory, simulations, h3)
autoLayoutByRef(sim) ==
  /\ Len(currentMolecule.atoms) > 0
  /\ Commit(autoLayoutLeaves(sim))
  /\ UNCHANGED clock

\* A live viewer mounted for molecule (part_001:32, 43-67): its
\* internalMolecule starts as the prop itself, the simulation gets copies of
\* the atoms and of the bonds whose ends exist.
\*   nodes, links  the objects the simulation writes to
\*   shown         internalMolecule of the viewer
liveStartLeaves(molecule, pos) ==
  LET addrs == Fresh(Objects, Len(molecule.atoms))
      h1 == Store(Objects, addrs,
                  [ i \in DOMAIN molecule.atoms |->
                      [ Objects[molecule.atoms[i]] EXCEPT !.x = pos[i][1], !.y = pos[i][2] ] ])
      atomIds == { Objects[a].id : a \in Range(molecule.atoms) }
      l == layoutLinks(h1, SelectSeq(molecule.bonds, LAMBDA b :
                             Objects[b].sourceAtomId \in atomIds
                             /\ Objects[b].targetAtomId \in atomIds))
  IN Left(currentMolecule, history,
          Append(simulations, [ nodes |-> addrs, links |-> l.links,
                                shown |-> molecule, ticks |-> 0 ]),
          d3Simulation(l.heap, addrs, l.links))
liveStartByRef(molecule, pos) ==
  /\ Len(simulations) < MaxViewers
  /\ Len(molecule.atoms) > 0
  /\ Commit(liveStartLeaves(molecule, pos))
  /\ UNCHANGED clock

\* A tick of simulation i (part_001:69-79): d3 moves the nodes, the callback
\* gives the viewer new atom objects and keeps its bonds array.
liveTickLeaves(i, pos) ==
  LET sim == simulations[i]
      h1 == Store(Objects, sim.nodes,
                  [ k \in DOMAIN sim.nodes |-> d3Tick(Objects[sim.nodes[k]], pos[k]) ])
      out == Fresh(h1, Len(sim.nodes))
      h2 == Store(h1, out,
                  [ k \in DOMAIN sim.nodes |->
                      [ id |-> h1[sim.nodes[k]].id, element |-> h1[sim.nodes[k]].element,
                        x |-> h1[sim.nodes[k]].x, y |-> h1[sim.nodes[k]].y ] ])
  IN Left(currentMolecule, history,
          [ simulations EXCEPT ![i].shown.atoms = out, ![i].ticks = @ + 1 ], h2)
liveTickByRef(i, pos) ==
  /\ simulations[i].ticks < MaxLiveTicks
  /\ Commit(liveTickLeaves(i, pos))
  /\ UNCHANGED clock

\* The viewer of simulation i is unmounted (part_001:82-85): the simulation
\* stops, and nothing refers to its objects any more.
liveUnmountByRef(i) ==
  /\ Commit(Left(currentMolecule, history,
                 SubSeq(simulations, 1, i - 1) \o SubSeq(simulations, i + 1, Len(simulations)),
                 Objects))
  /\ UNCHANGED clock

ShownAtomIds == { Objects[a].id : a \in Range(currentMolecule.atoms) }

\* Where the simulation leaves the nodes: one outcome, the nodes apart.
SharePositions(molecule) == { [ i \in DOMAIN molecule.atoms |-> << 60 * i, 100 >> ] }

NextShare ==
  \/ /\ UNCHANGED serviceVars
     /\ loadByRef(SavedRef)
  \/ /\ UNCHANGED serviceVars
     /\ \E element \in Elements, t \in Now : addAtomByRef(element, t)
  \/ /\ UNCHANGED serviceVars
     /\ \E atomId \in ShownAtomIds : deleteAtomByRef(atomId)
  \/ /\ UNCHANGED serviceVars
     /\ \E selected \in ShownAtomIds, atomId \in ShownAtomIds, t \in Now :
          clickBondByRef(selected, atomId, t)
  \/ /\ UNCHANGED serviceVars
     /\ \E atomId \in ShownAtomIds, p \in Points : dragByRef(atomId, p)
  \/ /\ UNCHANGED serviceVars
     /\ \E sim \in SharePositions(currentMolecule) : autoLayoutByRef(sim)
  \/ /\ UNCHANGED serviceVars
     /\ \E pos \in StartPositions(SavedRef) : liveStartByRef(SavedRef, pos)
  \/ /\ UNCHANGED serviceVars
     /\ \E i \in DOMAIN simulations :
          \E pos \in SharePositions(simulations[i].shown) : liveTickByRef(i, pos)
  \/ /\ UNCHANGED serviceVars
     /\ \E i \in DOMAIN simulations : liveUnmountByRef(i)

SpecShare == InitShare /\ [][NextShare]_vars

\* ==================================================== several pointers
\* The Builder's renderer without the assumption that one gesture ends
\* before the next begins.  Every contact of a touch screen is a pointer of
\* its own: setPointerCapture (part_001:124, 134) routes the later events of
\* that pointer only, and no handler looks at pointerId or isPrimary, so a
\* second pointer can go down while the first is held.  A toolbar button can
\* be activated meanwhile as well, by the second finger or from the
\* keyboard.  Here gesture holds one record per pointer; pointer 1 is the
\* primary pointer, the only one whose release is followed by a click.
Pointers == {1, 2}

\* The Builder after handleLoad(Hydroxide), no pointer down.
InitTouch ==
  /\ currentMolecule = Clone(Hydroxide)
  /\ history = <<>>
  /\ mode = "build"
  /\ internalMolecule = currentMolecule
  /\ draggedAtomId = Null
  /\ selectedAtomId = Null
  /\ transform = [ k |-> KUnit, x |-> 0, y |-> 0 ]
  /\ isPanning = FALSE
  /\ lastPanRef = NoPoint
  /\ isDraggingRef = FALSE
  /\ clock = ClockStart
  /\ gesture = [ ptr \in Pointers |-> GestureUp ]
  /\ input = NoInput /\ output = NotRun
  /\ NotLive /\ InitLab /\ NoHeap

\* A pointer that is not the primary one goes down only while the primary
\* pointer is down.
MayGoDown(ptr) ==
  /\ gesture[ptr].phase = "up"
  /\ ptr # 1 => gesture[1].phase = "down"

\* Pointer ptr goes down on the empty canvas: handleSvgPointerDown.
TouchSvgPointerDown(ptr, p) ==
  /\ MayGoDown(ptr)
  /\ handleSvgPointerDown(p)
  /\ gesture' = [ gesture EXCEPT ![ptr] = [ phase |-> "down", kind |-> "canvas", ref |-> 0 ] ]
  /\ UNCHANGED << builderVars, internalMolecule, draggedAtomId, selectedAtomId,
                  transform, isDraggingRef, clock >>

\* Pointer ptr goes down on an atom: handleAtomPointerDown (part_001:129-137).
TouchAtomPointerDown(ptr, atomId, p) ==
  /\ MayGoDown(ptr)
  /\ atomId \in AtomIds(internalMolecule)
  /\ gesture' = [ gesture EXCEPT ![ptr] = [ phase |-> "down", kind |-> "atom", ref |-> atomId ] ]
  /\ \/ /\ mode = "erase"
        /\ handleSvgPointerDown(p)
        /\ UNCHANGED << draggedAtomId, isDraggingRef, internalMolecule >>
     \/ /\ mode # "erase"
        /\ draggedAtomId' = atomId
        /\ isDraggingRef' = FALSE
        /\ UNCHANGED << isPanning, lastPanRef >>
        /\ SyncEffect(FALSE, internalMolecule)
  /\ UNCHANGED << builderVars, selectedAtomId, transform, clock >>

\* Pointer ptr is released: handlePointerUp (part_001:172-177), the
\* re-render, and for the primary pointer the click on the pressed atom.
TouchPointerUp(ptr, t) ==
  /\ gesture[ptr].phase = "down"
  /\ draggedAtomId' = Null
  /\ isPanning' = FALSE
  /\ lastPanRef' = NoPoint
  /\ gesture' = [ gesture EXCEPT ![ptr] = GestureUp ]
  /\ UNCHANGED << mode, transform, isDraggingRef >>
  /\ \/ /\ ptr = 1
        /\ gesture[ptr].kind = "atom"
        /\ gesture[ptr].ref \in AtomIds(ShownAfterPointerUp)
        /\ handleAtomClick(ShownAfterPointerUp, gesture[ptr].ref, t)
     \/ /\ ~(ptr = 1 /\ gesture[ptr].kind = "atom"
             /\ gesture[ptr].ref \in AtomIds(ShownAfterPointerUp))
        /\ t = clock
        /\ internalMolecule' = ShownAfterPointerUp
        /\ UNCHANGED << currentMolecule, history, selectedAtomId, clock >>

NextTouch ==
  \/ /\ UNCHANGED offPageVars
     /\ \E ptr \in Pointers, p \in PanPoints : TouchSvgPointerDown(ptr, p)
  \/ /\ UNCHANGED offPageVars
     /\ \E ptr \in Pointers, p \in PanPoints :
          \E a \in AtomIds(internalMolecule) : TouchAtomPointerDown(ptr, a, p)
  \/ /\ UNCHANGED offPageVars
     /\ \E p \in PanPoints : PointerMove(p)
  \/ /\ UNCHANGED offPageVars
     /\ \E ptr \in Pointers, t \in Now : TouchPointerUp(ptr, t)

SpecTouch == InitTouch /\ [][NextTouch]_vars

\* ================================================ a button during a drag
\* The Builder with one pointer, and the Add Atom button activated at any
\* moment, during a gesture too (from the keyboard, or by a second finger).

\* addAtom (constants.ts:54-69), whatever the pointer is doing.
addAtomAnyTime(element, jx, jy, t) ==
  /\ RoomFor(addAtomUpdater(currentMolecule, element, jx, jy, t))
  /\ history' = saveHistory
  /\ currentMolecule' = addAtomUpdater(currentMolecule, element, jx, jy, t)
  /\ mode' = "build"
  /\ clock' = t
  /\ UNCHANGED << draggedAtomId, selectedAtomId, viewVars, isDraggingRef, gesture >>
  /\ SyncEffect(TRUE, internalMolecule)

\* The Builder after handleLoad(Hydroxide), the pointer up.
InitMidDrag ==
  /\ currentMolecule = Clone(Hydroxide)
  /\ history = <<>>
  /\ mode = "build"
  /\ internalMolecule = currentMolecule
  /\ draggedAtomId = Null
  /\ selectedAtomId = Null
  /\ transform = [ k |-> KUnit, x |-> 0, y |-> 0 ]
  /\ isPanning = FALSE
  /\ lastPanRef = NoPoint
  /\ isDraggingRef = FALSE
  /\ clock = ClockStart
  /\ gesture = GestureUp
  /\ input = NoInput /\ output = NotRun
  /\ NotLive /\ InitLab /\ NoHeap

NextMidDrag ==
  \/ /\ UNCHANGED offPageVars
     /\ \E el \in Elements, jx \in Jitters, jy \in Jitters, t \in Now :
          addAtomAnyTime(el, jx, jy, t)
  \/ /\ UNCHANGED offPageVars
     /\ \E p \in Points : SvgPointerDown(p)
  \/ /\ UNCHANGED offPageVars
     /\ \E p \in Points : \E a \in AtomIds(internalMolecule) : AtomPointerDown(a, p)
  \/ /\ UNCHANGED offPageVars
     /\ \E p \in Points : PointerMove(p)
  \/ /\ UNCHANGED offPageVars
     /\ \E t \in Now : PointerUp(t)

SpecMidDrag == InitMidDrag /\ [][NextMidDrag]_vars

\* ============================================ layoutService: the nodes
\* The nodes autoLayoutMolecule hands to d3.forceSimulation
\* (part_000:207-213); d3 leaves a node's x and y alone when they are
\* numbers, so this is where the simulation starts.  jit[i] is the pair of
\* (Math.random() - 0.5) * 50 drawn for node i, a number in [-25, 25).
JitterSpan == 25
StartJitters == { -JitterSpan, 0, JitterSpan - 1 }
NodeWidths == { 60, ProductWidth, CanvasWidth }
NodeHeights == { 60, ProductHeight, CanvasHeight }

\* Nodes that start where the atoms are, stacked at the origin or not.
startNodesAsGiven(molecule, width, height, jit) ==
  [ i \in DOMAIN molecule.atoms |->
      [ id |-> molecule.atoms[i].id, element |-> molecule.atoms[i].element,
        x |-> molecule.atoms[i].x, y |-> molecule.atoms[i].y ] ]

\* const nodes = molecule.atoms.map(a => ({...a, x: ..., y: ...}))
startNodes(molecule, width, height, jit) ==
  [ i \in DOMAIN molecule.atoms |->
      LET a == molecule.atoms[i]
      IN [ id |-> a.id, element |-> a.element,
           x |-> IF a.x = 0 /\ a.y = 0 THEN (width \div 2) + jit[i][1] ELSE a.x,
           y |-> IF a.x = 0 /\ a.y = 0 THEN (height \div 2) + jit[i][2] ELSE a.y ] ]

InitNodes ==
  /\ InitBuilder
  /\ input \in { [ kind |-> "layout", molecule |-> m, width |-> w, height |-> h ] :
                   m \in LayoutMolecules, w \in NodeWidths, h \in NodeHeights }
  /\ output = NotRun
  /\ NotLive /\ InitLab /\ NoHeap

\* The first statements of one call autoLayoutMolecule(input.molecule,
\* input.width, input.height), up to the creation of the simulation.
layoutSetup(jit) ==
  /\ ~output.done
  /\ output' = [ done |-> TRUE,
                 nodes |-> IF Len(input.molecule.atoms) = 0 THEN <<>>
                           ELSE startNodes(input.molecule, input.width, input.height, jit) ]
  /\ UNCHANGED << builderVars, internalMolecule, draggedAtomId, selectedAtomId,
                  viewVars, isDraggingRef, clock, gesture, input, liveVars, labVars,
                  heap >>

NextNodes ==
  \E jit \in [ DOMAIN input.molecule.atoms -> StartJitters \X StartJitters ] : layoutSetup(jit)

SpecNodes == InitNodes /\ [][NextNodes]_vars

\* ============================================ a bond cycle and its undo
\* The Builder with loading, adding, clicking and undo, and a record of the
\* last click that cycled a bond's order: output holds the Builder's
\* molecule as it was just before that click (before), and whether the
\* operation that followed it was an undo (undone).  Any other operation
\* clears the record.

\* The release about to happen delivers a build-mode click that finds a
\* bond between the pending source and the clicked atom (part_001:194-211).
CycleClick ==
  /\ gesture.phase = "down" /\ gesture.kind = "atom"
  /\ mode = "build" /\ ~isDraggingRef
  /\ gesture.ref \in AtomIds(ShownAfterPointerUp)
  /\ hasPendingSource(gesture.ref)
  /\ existingBondIndex(ShownAfterPointerUp, selectedAtomId, gesture.ref) > 0

cycleFrame == << input, liveVars, labVars, heap >>

NextCycle ==
  \/ /\ UNCHANGED cycleFrame /\ output' = NotRun
     /\ \E mol \in savedMolecules : handleLoad(mol)
  \/ /\ UNCHANGED cycleFrame /\ output' = NotRun
     /\ \E el \in Elements, jx \in Jitters, jy \in Jitters, t \in Now : addAtom(el, jx, jy, t)
  \/ /\ UNCHANGED cycleFrame /\ output' = NotRun
     /\ \E p \in Points : \E a \in AtomIds(internalMolecule) : AtomPointerDown(a, p)
  \/ /\ UNCHANGED cycleFrame
     /\ output' = IF CycleClick
                  THEN [ done |-> TRUE, undone |-> FALSE, before |-> currentMolecule ]
                  ELSE NotRun
     /\ \E t \in Now : PointerUp(t)
  \/ /\ UNCHANGED cycleFrame
     /\ Len(history) # 0
     /\ output' = IF output.done /\ ~output.undone
                  THEN [ output EXCEPT !.undone = TRUE ]
                  ELSE NotRun
     /\ handleUndo

SpecCycle == Init /\ [][NextCycle]_vars

\* ===================================================== load, then undo
\* The Builder with handleLoad under observation: output remembers the saved
\* molecule picked in the load modal and the molecule it replaced, for as
\* long as nothing but Undo has been pressed since.
Loaded(mol) == [ done |-> TRUE, loaded |-> mol, before |-> currentMolecule ]

NextLoad ==
  \/ /\ UNCHANGED cycleFrame
     /\ \E mol \in savedMolecules : handleLoad(mol) /\ output' = Loaded(mol)
  \/ /\ UNCHANGED cycleFrame /\ output' = output
     /\ handleUndo
  \/ /\ UNCHANGED cycleFrame /\ output' = NotRun
     /\ \E el \in Elements, jx \in Jitters, jy \in Jitters, t \in Now : addAtom(el, jx, jy, t)
  \/ /\ UNCHANGED cycleFrame /\ output' = NotRun
     /\ \E t \in Now : clearCanvas(t)
  \/ /\ UNCHANGED cycleFrame /\ output' = NotRun
     /\ \E m \in {"build", "erase"} : setMode(m)
  \/ /\ UNCHANGED cycleFrame /\ output' = NotRun
     /\ \E p \in Points : \E a \in AtomIds(internalMolecule) : AtomPointerDown(a, p)
  \/ /\ UNCHANGED cycleFrame /\ output' = NotRun
     /\ \E t \in Now : PointerUp(t)

SpecLoad == Init /\ [][NextLoad]_vars

\* ====================================================== checked properties
\* Indices of the bonds of m that join the atom ids a and b, either direction.
BondsBetween(m, a, b) ==
  { i \in DOMAIN m.bonds :
      \/ (m.bonds[i].sourceAtomId = a /\ m.bonds[i].targetAtomId = b)
      \/ (m.bonds[i].sourceAtomId = b /\ m.bonds[i].targetAtomId = a) }

\* A step that releases the pointer over the atom it was pressed on, which
\* delivers a click to that atom (gesture.ref).
ClickOnAtom ==
  gesture.phase = "down" /\ gesture.kind = "atom" /\ gesture'.phase = "up"

\* A build-mode click that is not the end of a drag.
BuildClick == ClickOnAtom /\ mode = "build" /\ ~isDraggingRef

\* A build-mode click on an atom other than the pending bond source.
ClickOnOther ==
  BuildClick /\ selectedAtomId # Null /\ selectedAtomId # gesture.ref

\* A step of the pointer: a press, or anything done while it is pressed.
PointerStep == gesture.phase = "down" \/ gesture'.phase = "down"

\* Every atom of n is an atom of m, with the same element and coordinates.
AtomsKept(m, n) ==
  \A j \in DOMAIN n.atoms : \E i \in DOMAIN m.atoms : n.atoms[j] = m.atoms[i]

\* The ids an id can take within the explored clock readings.
IdUniverse == 1..MaxClock

\* C1: every bond of the builder's current molecule joins two atoms that are
\* present in that molecule, and joins two different ids.
C1_BondsReferenceAtoms ==
  \A i \in DOMAIN currentMolecule.bonds :
    /\ currentMolecule.bonds[i].sourceAtomId \in AtomIds(currentMolecule)
    /\ currentMolecule.bonds[i].targetAtomId \in AtomIds(currentMolecule)
    /\ currentMolecule.bonds[i].sourceAtomId # currentMolecule.bonds[i].targetAtomId

\* C2: no two atoms of the current molecule share an id and no two bonds
\* share an id, whatever the clock readings the ids were taken at.
C2_IdsUnique ==
  /\ \A i, j \in DOMAIN currentMolecule.atoms :
        currentMolecule.atoms[i].id = currentMolecule.atoms[j].id => i = j
  /\ \A i, j \in DOMAIN currentMolecule.bonds :
        currentMolecule.bonds[i].id = currentMolecule.bonds[j].id => i = j

\* C3: bond cycling law.  A non-drag build-mode click on B while A # B is the
\* pending source leaves exactly one bond between A and B; its order is 1 when
\* there was none, and the successor of the old order in 1 -> 2 -> 3 -> 1
\* otherwise, so four clicks from no bond give the orders 1, 2, 3, 1.
C3_BondCyclingLaw ==
  [][ ClickOnOther =>
        LET before == BondsBetween(currentMolecule, selectedAtomId, gesture.ref)
            after == BondsBetween(currentMolecule', selectedAtomId, gesture.ref)
        IN /\ Cardinality(after) = 1
           /\ \A j \in after :
                currentMolecule'.bonds[j].order =
                  IF before = {} THEN 1
                  ELSE (currentMolecule.bonds[CHOOSE i \in before : TRUE].order % 3) + 1
    ]_vars

\* C3 witness: a bond created in this session from the pending source, and
\* cycled twice since, up to order 3.
C3_Witness ==
  /\ mode = "build"
  /\ selectedAtomId # Null
  /\ \E i \in DOMAIN currentMolecule.bonds :
        /\ currentMolecule.bonds[i].id >= ClockStart
        /\ currentMolecule.bonds[i].sourceAtomId = selectedAtomId
        /\ currentMolecule.bonds[i].order = 3

\* C4: a build-mode click on B # A while A is the pending source leaves A the
\* pending source, whether it creates the bond A-B or cycles it, and leaves a
\* bond A-B behind; hence the next click, on a third atom C, acts on A-C.
C4_PendingSourceKept ==
  [][ ClickOnOther =>
        /\ selectedAtomId' = selectedAtomId
        /\ BondsBetween(currentMolecule', selectedAtomId, gesture.ref) # {}
    ]_vars

\* C4 witness: with O still the pending source, the hydroxide bond O-H has
\* been cycled and a bond from O to a third, added atom has been created.
C4_Witness ==
  /\ selectedAtomId = 1
  /\ \E i \in DOMAIN currentMolecule.bonds :
        /\ currentMolecule.bonds[i].sourceAtomId = 1
        /\ currentMolecule.bonds[i].targetAtomId = 2
        /\ currentMolecule.bonds[i].order = 2
  /\ \E i \in DOMAIN currentMolecule.bonds :
        /\ currentMolecule.bonds[i].sourceAtomId = 1
        /\ currentMolecule.bonds[i].targetAtomId >= ClockStart
        /\ currentMolecule.bonds[i].order = 1

\* C5: at most one bond joins any unordered pair of atom ids.
C5_OneBondPerPair ==
  \A i, j \in DOMAIN currentMolecule.bonds :
    ( { currentMolecule.bonds[i].sourceAtomId, currentMolecule.bonds[i].targetAtomId }
      = { currentMolecule.bonds[j].sourceAtomId, currentMolecule.bonds[j].targetAtomId } )
    => i = j

\* C5 witness: with H the pending source, the only bond is still the one
\* stored as O -> H, and its order has been changed.
C5_Witness ==
  /\ selectedAtomId = 2
  /\ Len(currentMolecule.bonds) = 1
  /\ currentMolecule.bonds[1].sourceAtomId = 1
  /\ currentMolecule.bonds[1].targetAtomId = 2
  /\ currentMolecule.bonds[1].order = 3

\* C6: a non-drag build-mode click selects the atom when nothing is pending
\* and clears the selection when the atom is the pending source itself; both
\* leave the molecule as it was, and no step ever bonds an atom to itself.
C6_SelectAndDeselect ==
  [][ /\ (BuildClick /\ (selectedAtomId = Null \/ selectedAtomId = gesture.ref)) =>
          /\ selectedAtomId' = (IF selectedAtomId = Null THEN gesture.ref ELSE Null)
          /\ currentMolecule' = currentMolecule
      /\ \A i \in DOMAIN currentMolecule'.bonds :
            currentMolecule'.bonds[i].sourceAtomId # currentMolecule'.bonds[i].targetAtomId
    ]_vars

\* C6 witness: an atom of the loaded molecule has been made the pending
\* source by a click, and the molecule is the loaded one still.
C6_Witness ==
  /\ mode = "build"
  /\ gesture.phase = "up"
  /\ selectedAtomId \in AtomIds(currentMolecule)
  /\ currentMolecule = Clone(Hydroxide)
  /\ ~isDraggingRef

\* C7: cascade deletion.  Erasing an atom of the current molecule removes that
\* one atom and exactly the bonds that touch its id, keeping the rest in order.
C7_CascadeDeletion ==
  \A k \in DOMAIN currentMolecule.atoms :
    LET atomId == currentMolecule.atoms[k].id
        left == handleAtomDeleteUpdater(currentMolecule, atomId)
    IN /\ \E i \in DOMAIN currentMolecule.atoms :
             /\ currentMolecule.atoms[i].id = atomId
             /\ left.atoms = RemoveAt(currentMolecule.atoms, i)
       /\ left.bonds = SelectSeq(currentMolecule.bonds,
                                 LAMBDA b : b.sourceAtomId # atomId /\ b.targetAtomId # atomId)

\* C8: removing an atom id or a bond id that the current molecule does not
\* hold leaves its atoms and bonds as they were.
C8_AbsentIdIsNoOp ==
  /\ \A atomId \in IdUniverse \ AtomIds(currentMolecule) :
        handleAtomDeleteUpdater(currentMolecule, atomId) = currentMolecule
  /\ \A bondId \in IdUniverse \ BondIds(currentMolecule) :
        handleBondDeleteUpdater(currentMolecule, bondId) = currentMolecule

\* C9: in erase mode a click on a bond's hit line removes that bond from the
\* current molecule, and nothing else.
C9_EraseClickRemovesBond ==
  [][ ( /\ mode = "erase"
        /\ gesture.phase = "down" /\ gesture.kind = "bond"
        /\ gesture'.phase = "up" ) =>
        /\ gesture.ref \notin BondIds(currentMolecule')
        /\ currentMolecule' = handleBondDeleteUpdater(currentMolecule, gesture.ref)
    ]_vars

PressOnAtom == gesture.phase = "up" /\ gesture'.phase = "down" /\ gesture'.kind = "atom"

\* A step taken while the pointer stays pressed on an atom: a pointer-move.
MoveOnAtom == gesture.phase = "down" /\ gesture.kind = "atom" /\ gesture' = gesture

\* The step changes the number of atoms or of bonds of the current molecule.
CountsChange ==
  \/ Len(currentMolecule'.atoms) # Len(currentMolecule.atoms)
  \/ Len(currentMolecule'.bonds) # Len(currentMolecule.bonds)

\* C11: click/drag disambiguation in build mode.  A press on an atom clears
\* the suppression flag, a pointer-move during the press sets it and it stays
\* set until the release; the click after a moved press changes neither the
\* pending source nor the bonds, and the click after a move-free press is
\* handled: it changes the pending source or the bonds.
C11_ClickOrDrag ==
  [][ /\ (PressOnAtom /\ mode = "build") => ~isDraggingRef'
      /\ (MoveOnAtom /\ mode = "build") => isDraggingRef'
      /\ (ClickOnAtom /\ mode = "build" /\ isDraggingRef) =>
            /\ selectedAtomId' = selectedAtomId
            /\ currentMolecule'.bonds = currentMolecule.bonds
      /\ (ClickOnAtom /\ mode = "build" /\ ~isDraggingRef) =>
            \/ selectedAtomId' # selectedAtomId
            \/ currentMolecule'.bonds # currentMolecule.bonds
    ]_vars

\* C11 witness: O is the pending source, H was then dragged onto the pointer
\* and released; the click that followed was dropped, so the O-H bond still
\* has order 1 and O is still pending.
C11_Witness ==
  /\ mode = "build"
  /\ gesture.phase = "up"
  /\ isDraggingRef
  /\ selectedAtomId = 1
  /\ Len(currentMolecule.atoms) = 2
  /\ currentMolecule.atoms[2].id = 2
  /\ currentMolecule.atoms[2].x = 300
  /\ currentMolecule.bonds = Hydroxide.bonds

\* C12 as stated: every operation other than undo that changes the number of
\* atoms or bonds leaves the pre-operation molecule as the last history entry.
C12_SnapshotBeforeEveryChange ==
  [][ (CountsChange /\ ~handleUndo) => history' = Append(history, currentMolecule) ]_vars

\* C12 amended: the same for every operation other than undo and handleLoad;
\* handleLoad replaces the molecule and empties the history.
C12_SnapshotBeforeChange ==
  [][ (CountsChange /\ ~handleUndo /\ ~(\E mol \in savedMolecules : handleLoad(mol)))
        => history' = Append(history, currentMolecule) ]_vars

\* C12 witness: the last snapshot is the current molecule without its newest
\* bond.
C12_Witness ==
  /\ Len(history) > 0
  /\ Len(currentMolecule.bonds) > 0
  /\ history[Len(history)].atoms = currentMolecule.atoms
  /\ history[Len(history)].bonds =
       SubSeq(currentMolecule.bonds, 1, Len(currentMolecule.bonds) - 1)

\* C13: a pure drag in build mode (press on an atom, pointer-moves, release
\* after at least one move) leaves the history stack unchanged.
C13_DragKeepsHistory ==
  [][ ( /\ mode = "build"
        /\ \/ PressOnAtom
           \/ MoveOnAtom
           \/ (ClickOnAtom /\ isDraggingRef) ) => history' = history ]_vars

\* C13 witness: H is being dragged, has been moved onto the pointer, and the
\* history of the freshly loaded molecule is still empty.
C13_Witness ==
  /\ draggedAtomId = 2
  /\ isDraggingRef
  /\ history = <<>>
  /\ Len(currentMolecule.atoms) = 2
  /\ currentMolecule.atoms[2].x = 300
  /\ currentMolecule.atoms[2].x # Hydroxide.atoms[2].x

Built == output.done /\ input.kind = "product" /\ ~output.failed

\* Indices of the input atoms that carry a non-empty id and element.
GoodAtoms == { i \in DOMAIN input.atoms :
                 /\ "id" \in DOMAIN input.atoms[i] /\ input.atoms[i].id # ""
                 /\ "element" \in DOMAIN input.atoms[i] /\ input.atoms[i].element # "" }

\* Indices of the input bonds whose two ends are ids of such atoms.
GoodBonds == { i \in DOMAIN input.bonds :
                 /\ \E a \in GoodAtoms : input.bonds[i].source = input.atoms[a].id
                 /\ \E a \in GoodAtoms : input.bonds[i].target = input.atoms[a].id }

\* The elements of the increasing sequence that enumerates the index set I.
Nth(I, n) == CHOOSE i \in I : Cardinality({ j \in I : j < i }) = n - 1

\* C15: sanitization soundness.  Every product graph yields a molecule, all
\* of whose bonds join ids of its own atoms, and which has no more atoms and
\* no more bonds than the graph.
C15_SanitizationSound ==
  (output.done /\ input.kind = "product") =>
    /\ ~output.failed
    /\ \A i \in DOMAIN output.molecule.bonds :
          /\ output.molecule.bonds[i].sourceAtomId \in AtomIds(output.molecule)
          /\ output.molecule.bonds[i].targetAtomId \in AtomIds(output.molecule)
    /\ Len(output.molecule.atoms) <= Len(input.atoms)
    /\ Len(output.molecule.bonds) <= Len(input.bonds)

\* C15 witness: a molecule was built that lost an atom and a bond of the
\* graph and kept a bond.
C15_Witness ==
  /\ Built
  /\ Len(output.molecule.atoms) < Len(input.atoms)
  /\ Len(output.molecule.bonds) < Len(input.bonds)
  /\ Len(output.molecule.bonds) > 0

\* C16: an atom is kept only if its id is non-empty and its element is one of
\* the 15 ElementType symbols.
C16_OnlyKnownElements ==
  Built =>
    \A i \in DOMAIN output.molecule.atoms :
      /\ output.molecule.atoms[i].id # ""
      /\ output.molecule.atoms[i].element \in ElementType

\* C17: every bond of a product molecule has an order in {1, 2, 3}.
C17_OrdersValid ==
  Built =>
    \A i \in DOMAIN output.molecule.bonds : output.molecule.bonds[i].order \in { 1, 2, 3 }

\* C18: the atoms of a product molecule have pairwise distinct ids, and so
\* have its bonds, also when two atoms of the graph carry the same id.
C18_FreshIds ==
  Built =>
    /\ \A i, j \in DOMAIN output.molecule.atoms :
          output.molecule.atoms[i].id = output.molecule.atoms[j].id => i = j
    /\ \A i, j \in DOMAIN output.molecule.bonds :
          output.molecule.bonds[i].id = output.molecule.bonds[j].id => i = j

\* C19: nothing valid is dropped.  The atoms of the molecule are the input
\* atoms with a non-empty id and element, one for one and in order, and its
\* bonds are the input bonds with both ends among those ids, one for one, in
\* order and with the same ends.
C19_KeepsAllValid ==
  (output.done /\ input.kind = "product") =>
    /\ ~output.failed
    /\ Len(output.molecule.atoms) = Cardinality(GoodAtoms)
    /\ \A n \in DOMAIN output.molecule.atoms :
          /\ output.molecule.atoms[n].id = input.atoms[Nth(GoodAtoms, n)].id
          /\ output.molecule.atoms[n].element = input.atoms[Nth(GoodAtoms, n)].element
    /\ Len(output.molecule.bonds) = Cardinality(GoodBonds)
    /\ \A n \in DOMAIN output.molecule.bonds :
          /\ output.molecule.bonds[n].sourceAtomId = input.bonds[Nth(GoodBonds, n)].source
          /\ output.molecule.bonds[n].targetAtomId = input.bonds[Nth(GoodBonds, n)].target

\* C19 witness: of two bonds one names the absent atom id "9"; the molecule
\* keeps both atoms and the other bond.
C19_Witness ==
  /\ Built
  /\ Len(input.atoms) = 2 /\ Len(output.molecule.atoms) = 2
  /\ Len(input.bonds) = 2 /\ Len(output.molecule.bonds) = 1
  /\ \E i \in DOMAIN input.bonds : input.bonds[i].target = "9"
  /\ output.molecule.bonds[1].sourceAtomId = "1"
  /\ output.molecule.bonds[1].targetAtomId = "2"

\* ------------------------------------------------ properties of the layout
\* autoLayoutMolecule has returned the layout of a non-empty molecule.
LaidOut ==
  /\ output.done /\ input.kind = "layout" /\ ~output.failed
  /\ Len(input.molecule.atoms) > 0

\* Every atom returned lies within the margins of the canvas.
WithinMargins ==
  \A i \in DOMAIN output.molecule.atoms :
    /\ LayoutMargin <= output.molecule.atoms[i].x
    /\ output.molecule.atoms[i].x <= input.width - LayoutMargin
    /\ LayoutMargin <= output.molecule.atoms[i].y
    /\ output.molecule.atoms[i].y <= input.height - LayoutMargin

\* C20 as stated: for every non-empty molecule and every canvas, each atom
\* returned has x in [30, width - 30] and y in [30, height - 30].
C20_LayoutBounded == LaidOut => WithinMargins

\* C20 amended: the same for every canvas at least two margins wide and high
\* (width >= 60 and height >= 60).
C20_LayoutBoundedOnCanvas ==
  (LaidOut /\ input.width >= 2 * LayoutMargin /\ input.height >= 2 * LayoutMargin)
    => WithinMargins

\* C20 witness: on the Builder's canvas the simulation left one atom to the
\* left of the canvas and one below it; both were clamped onto the margin.
C20_Witness ==
  /\ LaidOut
  /\ input.width = CanvasWidth /\ input.height = CanvasHeight
  /\ \E i \in DOMAIN output.molecule.atoms : output.molecule.atoms[i].x = LayoutMargin
  /\ \E i \in DOMAIN output.molecule.atoms :
        output.molecule.atoms[i].y = CanvasHeight - LayoutMargin

\* C21 (layout non-collapse): for a molecule with at least two atoms, no two
\* atoms of the molecule autoLayoutMolecule returns have the same (x, y).
C21_NoCollapse ==
  (LaidOut /\ Len(input.molecule.atoms) >= 2)
    => \A i, j \in DOMAIN output.molecule.atoms :
         i # j => << output.molecule.atoms[i].x, output.molecule.atoms[i].y >>
                    # << output.molecule.atoms[j].x, output.molecule.atoms[j].y >>

\* C23 (dangling bonds are dropped): autoLayoutMolecule completes without
\* raising to its caller, on a molecule with a dangling bond too.
C23_LayoutNeverRaises ==
  (output.done /\ input.kind = "layout") => ~output.failed

\* ------------------------------------------- properties of the live layout
\* The step is a tick of some simulation.
TickStep ==
  \E i \in DOMAIN simulations : simulations'[i].ticks # simulations[i].ticks

\* Atom ids and elements in order, and the bonds.
Topology(m) ==
  << [ i \in DOMAIN m.atoms |-> << m.atoms[i].id, m.atoms[i].element >> ], m.bonds >>

\* C22 (layout never changes topology): a live-mode tick leaves the molecule
\* shown with the same atom ids and elements in the same order and the same
\* bonds as before it; only x and y differ.
C22_TickKeepsTopology ==
  [][ TickStep => Topology(internalMolecule') = Topology(internalMolecule) ]_vars

\* The timer of a simulation fires in this step.
TimerFires(i) == simulations[i].timer # "fired" /\ simulations'[i].timer = "fired"

\* C24 (live-mode cancellation): a simulation stopped by its 3 s timer or by
\* the effect's cleanup never runs its tick callback again, and the timer of
\* a cleaned-up simulation never fires.
C24_StoppedStaysStopped ==
  [][ \A i \in DOMAIN simulations :
        /\ (simulations[i].cleaned \/ simulations[i].timer = "fired")
             => simulations'[i].ticks = simulations[i].ticks
        /\ simulations[i].cleaned => ~TimerFires(i) ]_vars

\* C24 witness: the first simulation ticked and was then cleaned up, its
\* timer cleared; the second one ticked and was stopped by its timer.
C24_Witness ==
  /\ Len(simulations) = 2
  /\ simulations[1].cleaned /\ simulations[1].ticks > 0 /\ simulations[1].timer = "cleared"
  /\ simulations[2].timer = "fired" /\ simulations[2].ticks > 0 /\ ~simulations[2].cleaned

\* C25 (one live simulation per viewer): at most one simulation is running,
\* and every simulation but the latest has been stopped and has no pending
\* timer.
C25_OneSimulation ==
  /\ Cardinality({ i \in DOMAIN simulations : simulations[i].running }) <= 1
  /\ \A i \in DOMAIN simulations :
       i < Len(simulations) => ~simulations[i].running /\ simulations[i].timer # "pending"

\* C25 witness: the effect started a second simulation while the first one
\* was still ticking; only the second one runs.
C25_Witness ==
  /\ Len(simulations) = 2
  /\ simulations[1].ticks > 0 /\ simulations[1].timer = "cleared"
  /\ simulations[2].running /\ simulations[2].timer = "pending"

\* Where the atoms with this id are shown.
PositionsOf(m, atomId) ==
  { << m.atoms[i].x, m.atoms[i].y >> : i \in { j \in DOMAIN m.atoms : m.atoms[j].id = atomId } }

\* C26 (the dragged atom is pinned): while an atom is the drag target, no
\* simulation tick changes where that atom is shown.
C26_DraggedAtomPinned ==
  [][ ( /\ draggedAtomId # Null
        /\ draggedAtomId' = draggedAtomId
        /\ TickStep )
      => PositionsOf(internalMolecule', draggedAtomId)
           = PositionsOf(internalMolecule, draggedAtomId) ]_vars

\* ------------------------------------------------ properties of ReactionLab
\* C27 (prediction failure is all-or-nothing): result and error are never
\* both non-null; loading is true exactly while a request is awaited, and
\* then neither is shown; after a failed request result is null, loading is
\* false and the Simulate Reaction button is available again.
C27_AllOrNothing ==
  /\ ~(result # NullRef /\ error # NullRef)
  /\ loading <=> request # NullRef
  /\ loading => result = NullRef /\ error = NullRef
  /\ (error # NullRef /\ ~loading) => ReactButtonShown

\* C27 witness: a request for two reactants has failed in the try block; the
\* one error is shown and no result.
C27_Witness ==
  /\ error = [ message |-> "Failed to simulate reaction. Please try again." ]
  /\ result = NullRef /\ ~loading /\ request = NullRef
  /\ Len(reactants) = 2

\* -------------------------------------------- properties of identification
\* C28 (identification never fails): identifyMolecule returns to its caller
\* in every case, with the collaborator's trimmed name when that is
\* non-empty and at most 50 characters long and with the formula otherwise,
\* also when the call fails or the client cannot be created.
C28_IdentifyNeverFails ==
  (output.done /\ input.kind = "identify")
    => /\ ~output.failed
       /\ output.value =
            IF /\ input.apiKey
               /\ input.response.kind = "text"
               /\ trim(input.response.text) # <<>>
               /\ Len(trim(input.response.text)) <= NameLimit
            THEN trim(input.response.text)
            ELSE formula(input.molecule)

\* ------------------------------------------------ properties of the view
\* C29 (the scale stays in range): after any sequence of zooms by button or
\* wheel, pans and resets, transform.k is positive and within [0.2, 5].
C29_ScaleInRange ==
  /\ transform.k > 0
  /\ ZoomMin <= transform.k /\ transform.k <= ZoomMax

\* C29 witness: zooming out has brought the scale down to 0.2, with the view
\* still centred on the middle of the canvas.
C29_Witness ==
  /\ transform.k = ZoomMin
  /\ transform.x > 0 /\ transform.y > 0

\* C30: no handler writes to an object that a molecule value refers to.  The
\* atoms and bonds of the saved molecule stay as they were saved, whatever
\* is done to the copy handleLoad made; and every atom and bond of the
\* Builder's molecule, of its snapshots and of the molecule a live viewer
\* shows is as it was created, whatever the layout and the live simulations
\* have written.
MoleculeObjects ==
  MoleculeAddrs(SavedRef) \cup MoleculeAddrs(currentMolecule)
    \cup UNION { MoleculeAddrs(history[i]) : i \in DOMAIN history }
    \cup UNION { MoleculeAddrs(simulations[i].shown) : i \in DOMAIN simulations }
C30_NoSharedMutableState ==
  /\ \A a \in MoleculeAddrs(SavedRef) : heap.now[a] = SavedHeap[a]
  /\ \A a \in MoleculeObjects : heap.now[a] = heap.born[a]
\* The saved molecule was loaded and laid out, a live viewer of the saved
\* molecule has ticked, and the loaded atoms have moved.
C30_Witness ==
  /\ currentMolecule.id = SavedRef.id
  /\ Len(history) > 0
  /\ Len(currentMolecule.atoms) = Len(SavedRef.atoms)
  /\ \E i \in DOMAIN currentMolecule.atoms :
       heap.now[currentMolecule.atoms[i]].y # SavedHeap[SavedRef.atoms[i]].y
  /\ \E i \in DOMAIN simulations :
       /\ simulations[i].ticks > 0
       /\ \E k \in DOMAIN simulations[i].nodes :
            heap.now[simulations[i].nodes[k]].x # SavedHeap[SavedRef.atoms[k]].x

\* C31: a drag and a pan are never in progress together: draggedAtomId is
\* null or isPanning is false, whatever the order of the pointer-down events
\* on atoms and on the canvas.
C31_DragExcludesPan == ~(draggedAtomId # Null /\ isPanning)

\* ------------------------------------------ where the batch layout starts
Near(v, centre) == v - centre <= JitterSpan /\ centre - v <= JitterSpan

\* C32 as stated: the batch layout starts every node within 25 units of the
\* canvas centre, in x and in y, wherever the atom was in the input.
C32_AllStartAtCentre ==
  output.done =>
    \A i \in DOMAIN output.nodes :
      /\ Near(output.nodes[i].x, input.width \div 2)
      /\ Near(output.nodes[i].y, input.height \div 2)

\* C32 amended: the batch layout starts a node within 25 units of the canvas
\* centre, in x and in y, when the atom's input position is (0, 0), and at
\* the atom's input position otherwise.
C32_StackedStartAtCentre ==
  output.done =>
    /\ Len(output.nodes) = Len(input.molecule.atoms)
    /\ \A i \in DOMAIN output.nodes :
         IF input.molecule.atoms[i].x = 0 /\ input.molecule.atoms[i].y = 0
         THEN /\ Near(output.nodes[i].x, input.width \div 2)
              /\ Near(output.nodes[i].y, input.height \div 2)
         ELSE /\ output.nodes[i].x = input.molecule.atoms[i].x
              /\ output.nodes[i].y = input.molecule.atoms[i].y

\* C32 witness: of two atoms stacked at the origin, one starts 25 left of
\* the centre of the Builder's canvas and the other 24 right of it.
C32_Witness ==
  /\ output.done
  /\ input.width = CanvasWidth
  /\ Len(output.nodes) = 2
  /\ input.molecule.atoms[1].x = 0 /\ input.molecule.atoms[1].y = 0
  /\ output.nodes[1].x = (CanvasWidth \div 2) - JitterSpan
  /\ output.nodes[2].x = (CanvasWidth \div 2) + JitterSpan - 1

\* ------------------------------------------------ what a pointer-move does
\* The step is a pointer-move.
IsPointerMove == \E p \in PanPoints : PointerMove(p)

C34_PanAddsDelta ==
  [][ \A p \in PanPoints :
        PointerMove(p) =>
          /\ (isPanning /\ lastPanRef # NoPoint) =>
               /\ transform'.x = transform.x + (p[1] - lastPanRef[1])
               /\ transform'.y = transform.y + (p[2] - lastPanRef[2])
               /\ transform'.k = transform.k
               /\ internalMolecule' = internalMolecule
               /\ currentMolecule' = currentMolecule
          /\ ~isPanning => transform' = transform
    ]_vars

\* C35: a pointer-down on an atom never starts a pan: while the pointer is
\* pressed on an atom, isPanning is false, in build mode and in erase mode.
C35_AtomPressNeverPans ==
  (gesture.phase = "down" /\ gesture.kind = "atom") => ~isPanning

\* C36: the pending bond source is null or the id of an atom of the
\* Builder's current molecule.
C36_PendingSourceValid ==
  selectedAtomId = Null \/ selectedAtomId \in AtomIds(currentMolecule)

\* C37: a single undo right after a click that cycled a bond's order gives
\* the molecule as it was just before the click: the bond with its former
\* order, every other atom and bond as it was.
C37_CycleUndoneInOneStep ==
  (output.done /\ output.undone) => currentMolecule = output.before

\* C38: a pointer-move of a drag does not undo what a Builder operation did
\* to the current molecule since the drag began: the Builder's molecule has
\* the same atoms, by id, after the move as before it.
C38_MoveKeepsBuilderAtoms ==
  [][ (IsPointerMove /\ draggedAtomId # Null) =>
        /\ Len(currentMolecule'.atoms) = Len(currentMolecule.atoms)
        /\ AtomIds(currentMolecule') = AtomIds(currentMolecule)
    ]_vars

\* C39: for as long as nothing but Undo has been pressed since a load, the
\* builder's molecule has the id, name, atoms and bonds of the saved
\* molecule that was picked and the history is empty; so an undo right after
\* a load changes nothing and never brings back the molecule it replaced.
C39_LoadThenUndoKeepsLoaded ==
  output.done =>
    /\ currentMolecule.id = output.loaded.id
    /\ currentMolecule.name = output.loaded.name
    /\ currentMolecule.atoms = output.loaded.atoms
    /\ currentMolecule.bonds = output.loaded.bonds
    /\ history = <<>>

\* A load has just replaced a molecule the user had edited.
C39_Witness ==
  /\ output.done
  /\ output.before.atoms # << >>
  /\ output.before.atoms # output.loaded.atoms
  /\ currentMolecule.atoms = output.loaded.atoms

====
